---------------------------- MODULE Spec2Model ----------------------------
(***************************************************************************)
(* Media resolution and delivery pipeline of ligarx-org/audiov1:           *)
(* the session cache, the two-phase resolver, the streaming downloader,    *)
(* the platform resolvers and the callback router of messenger.py, and the *)
(* song download flow of search.py.                                        *)
(*                                                                         *)
(* Strings that the code builds and parses (button tokens) are sequences   *)
(* of atoms, "_" being the separator atom, so that formatting a token and  *)
(* splitting it again are two different computations.                      *)
(***************************************************************************)
EXTENDS Integers, Sequences, FiniteSets, TLC

VARIABLES
    now,        \* the wall clock read by datetime.now(), in minutes
    cache,      \* MessengerDownloader.cache: session id -> [data, expires_at]
    usedIds,    \* the uuid4 values drawn so far
    storeLog,   \* history: session id -> the data and the time of its store
    lastGet,    \* history: the last get_from_cache call and what it returned
    poll,       \* one run of the two-phase resolver
    fs,         \* the temp tree: [dirs: set of directories, files: path -> size]
    dl,         \* history: the last direct download_file call
    res,        \* the resolver flow in progress (youtube/tiktok/instagram_download)
    buttons,    \* the buttons of the menus delivered to the chat
    cb,         \* the button press in progress (handle_callback)
    song,       \* the song download in progress (download_song_background)
    pick,       \* history: the last best-audio selection, its list and its choice
    reports,    \* history: how each download of the YouTube handler ended, and
                \* the message the handler then sent
    loop,       \* the asyncio event loop: the task its thread runs, and where
                \* each user's task stands
    route,      \* history: the last handle_url call, its URL and where it went
    thr,        \* the holder of cache_lock and the cache call each thread is in
    bot         \* state of bot.py and search.py outside the media pipeline:
                \* search sessions and the result messages shown

vars == <<now, cache, usedIds, storeLog, lastGet, poll, fs, dl, res, buttons, cb, song, pick,
          reports, loop, route, thr, bot>>

---------------------------------------------------------------------------
(* Bounds of the model *)

MaxTime == 30
ClockStep == 15
MaxSessions == 2
MaxResolves == 1
MaxItems == 3
MaxUsers == 2
MaxSearches == 2

(* Program constants *)

cache_ttl == 15
max_attempts == 10
max_size == 100
chunk_size == 8192

MiB == 1024 * 1024

---------------------------------------------------------------------------
(* Values *)

None == [none |-> TRUE]

Uuids == { <<"u", ToString(i)>> : i \in 1..MaxSessions }

UnknownId == <<"zz">>

SampleData ==
    { [yt_formats |-> <<>>, yt_timestamp |-> "0"],
      [tt_links |-> <<>>, tt_timestamp |-> "0"] }

---------------------------------------------------------------------------
(* Strings *)

Sep == "_"

(* "_".join(parts) *)
RECURSIVE Join(_)
Join(parts) ==
    IF Len(parts) = 0 THEN << >>
    ELSE IF Len(parts) = 1 THEN parts[1]
    ELSE parts[1] \o <<Sep>> \o Join(Tail(parts))

(* data.split("_") *)
Split(str) ==
    LET F[i \in 0..Len(str)] ==
            IF i = 0 THEN << << >> >>
            ELSE IF str[i] = Sep
                 THEN Append(F[i - 1], << >>)
                 ELSE [F[i - 1] EXCEPT ![Len(F[i - 1])] = Append(@, str[i])]
    IN  F[Len(str)]

(* str.lower() and str.upper() on the labels the resolvers see *)
Lower(a) ==
    CASE a = "M4A" -> "m4a"
      [] a = "MP4" -> "mp4"
      [] a = "False" -> "false"
      [] a = "Audio" -> "audio"
      [] OTHER -> a

Upper(a) ==
    CASE a = "m4a" -> "M4A"
      [] a = "mp4" -> "MP4"
      [] a = "webm" -> "WEBM"
      [] a = "audio" -> "AUDIO"
      [] a = "video" -> "VIDEO"
      [] OTHER -> a

(* "false" in quality.lower() *)
HasFalse(quality) == Lower(quality) = "false"

(* datetime.now().strftime("%Y%m%d%H%M%S"): a run of digits *)
Timestamp(t) == <<"2024", ToString(t)>>

(* Indexing that is off by one: seq[i + 1] of Python. *)
PyIndexNext(seq, i) ==
    IF 0 <= i + 1 /\ i + 1 < Len(seq) THEN [ok |-> TRUE, value |-> seq[i + 2]]
    ELSE [ok |-> FALSE, value |-> [none |-> TRUE]]

(* seq[i] of Python for an int i, negative indices counting from the end;
   ok is FALSE where Python raises IndexError *)
PyIndex(seq, i) ==
    IF 0 <= i /\ i < Len(seq) THEN [ok |-> TRUE, value |-> seq[i + 1]]
    ELSE IF i < 0 /\ -i <= Len(seq) THEN [ok |-> TRUE, value |-> seq[Len(seq) + i + 1]]
    ELSE [ok |-> FALSE, value |-> None]

(* x is None, for an x that may be a string *)
IsNone(x) == ToString(x) = ToString(None)

(* A test of the resolver's result that lets (None, None) through. *)
FalsyNever(x) == FALSE

(* not x, for x a string or None *)
Falsy(x) == IsNone(x) \/ x = ""

(* result is the pair (None, None) *)
IsTimeout(result) == IsNone(result[1]) /\ IsNone(result[2])

(* int(str): the digit strings the model uses, "-1" among them *)
IsDigits(a) == a = "2024" \/ \E n \in 0..99 : ToString(n) = a

AtomVal(a) == IF a = "2024" THEN 2024 ELSE CHOOSE n \in 0..99 : ToString(n) = a

IsInt(str) ==
    \/ str = <<"-1">>
    \/ Len(str) >= 1 /\ \A i \in 1..Len(str) : IsDigits(str[i])

IntOf(str) ==
    LET V[i \in 0..Len(str)] ==
            IF i = 0 THEN 0
            ELSE V[i - 1] * (IF AtomVal(str[i]) < 10 THEN 10
                             ELSE IF AtomVal(str[i]) < 100 THEN 100 ELSE 10000)
                 + AtomVal(str[i])
    IN  IF str = <<"-1">> THEN -1 ELSE V[Len(str)]

(* str.startswith(prefix) for a one-atom prefix *)
StartsWith(str, prefix) == Len(str) >= 1 /\ str[1] = prefix

(* d.get(key, default) *)
DictGet(d, key, default) == IF key \in DOMAIN d THEN d[key] ELSE default

---------------------------------------------------------------------------
(* Session cache *)

(* An eviction that removes nothing. *)
cleanup_nothing(c, t) == c

cleanup_expired_cache(c, t) ==
    LET expired == { k \in DOMAIN c : t > c[k].expires_at }
    IN  [k \in (DOMAIN c) \ expired |-> c[k]]

store_in_cache(c, session_id, data, t1, t2) ==
    LET c1 == cleanup_expired_cache(c, t1)
    IN  [k \in (DOMAIN c1) \cup {session_id} |->
            IF k = session_id
            THEN [data |-> data, expires_at |-> t2 + cache_ttl]
            ELSE c1[k]]

(* get_from_cache with the expiry test off by one: an entry read exactly at
   expires_at counts as expired. *)
get_from_cache_strict(c, session_id, t1, t2) ==
    LET c1 == cleanup_expired_cache(c, t1)
    IN  [cache  |-> c1,
         result |-> IF session_id \in DOMAIN c1 /\ t2 < c1[session_id].expires_at
                    THEN c1[session_id].data
                    ELSE None]

(* A get_from_cache that renews the entry it returns. *)
get_from_cache_renew(c, session_id, t1, t2) ==
    LET c1 == cleanup_expired_cache(c, t1)
        hit == session_id \in DOMAIN c1 /\ t2 <= c1[session_id].expires_at
    IN  [cache  |-> IF hit
                    THEN [c1 EXCEPT ![session_id].expires_at = t2 + cache_ttl]
                    ELSE c1,
         result |-> IF hit THEN c1[session_id].data ELSE None]

get_from_cache(c, session_id, t1, t2) ==
    LET c1 == cleanup_expired_cache(c, t1)
    IN  [cache  |-> c1,
         result |-> IF session_id \in DOMAIN c1 /\ t2 <= c1[session_id].expires_at
                    THEN c1[session_id].data
                    ELSE None]

---------------------------------------------------------------------------
(* The cache calls statement by statement, as concurrent threads run them.
   Each of the three functions enters "with self.cache_lock"; store_in_cache
   and get_from_cache call cleanup_expired_cache first and take the lock a
   second time for their own statement. *)

(* Two threads, the fewest that can interleave. *)
Threads == {1, 2}

ThreadIdle ==
    [pc |-> "idle", op |-> "", session_id |-> UnknownId, data |-> None,
     size |-> 0, expired |-> {}, at |-> 0, result |-> None, stored |-> None,
     raised |-> ""]

ThrIdle == [cache_lock |-> 0, t |-> [u \in Threads |-> ThreadIdle]]

(* A lock that lets every thread in. *)
AcquireAlways(holder, u) == TRUE

(* threading.Lock: acquire goes through when no thread holds the lock. *)
Acquire(holder, u) == holder = 0

(* The code of a thread that holds, or should hold, the lock. *)
LockedPcs == {"scan", "scan_end", "del", "body"}

---------------------------------------------------------------------------
(* Two-phase resolver *)

Timeout == <<None, None>>

(* What one status call can bring: an exception (network error, HTTP error
   status, unparsable body), or a JSON body. *)
Answers ==
    { [kind |-> "raise", api |-> FALSE, percent |-> "", fileUrl |-> "", fileName |-> ""],
      [kind |-> "json", api |-> FALSE, percent |-> "", fileUrl |-> "", fileName |-> ""],
      [kind |-> "json", api |-> TRUE, percent |-> "50%", fileUrl |-> "f1", fileName |-> "n1"],
      [kind |-> "json", api |-> TRUE, percent |-> "Completed", fileUrl |-> "", fileName |-> "n1"],
      [kind |-> "json", api |-> TRUE, percent |-> "Completed", fileUrl |-> "f1", fileName |-> ""],
      [kind |-> "json", api |-> TRUE, percent |-> "Completed", fileUrl |-> "f1", fileName |-> "n1"],
      [kind |-> "json", api |-> TRUE, percent |-> "Completed", fileUrl |-> "f2", fileName |-> "n2"] }

PollIdle ==
    [fn |-> "", media_url |-> "", pc |-> "idle", attempt |-> 0,
     calls |-> 0, sleeps |-> 0,
     lastAnswer |-> None, nComplete |-> 0, answer |-> "", raised |-> FALSE,
     returns |-> Timeout]

PollStart(fn, media_url) ==
    [fn |-> fn, media_url |-> media_url, pc |-> "call", attempt |-> 0,
     calls |-> 0, sleeps |-> 0,
     lastAnswer |-> None, nComplete |-> 0, answer |-> "", raised |-> FALSE,
     returns |-> Timeout]

(* The answer is one the loop returns on. *)
IsComplete(ans) ==
    /\ ans.kind = "json"
    /\ ans.api
    /\ ans.percent = "Completed"
    /\ ans.fileUrl # ""
    /\ ans.fileName # ""

(* _get_final_download_url without the test that both fields are present. *)
get_final_download_url_anyfields(p, ans) ==
    LET q == [p EXCEPT !.calls = @ + 1, !.answer = ans.kind,
                       !.lastAnswer = IF IsComplete(ans) THEN ans ELSE @,
                       !.nComplete = @ + (IF IsComplete(ans) THEN 1 ELSE 0)]
    IN  IF ans.kind = "raise"
        THEN IF p.attempt < max_attempts - 1
             THEN [q EXCEPT !.pc = "sleep"]
             ELSE [q EXCEPT !.pc = "done", !.returns = Timeout]
        ELSE IF ans.api /\ ans.percent = "Completed"
             THEN [q EXCEPT !.pc = "done", !.returns = <<ans.fileUrl, ans.fileName>>]
             ELSE IF p.attempt < max_attempts - 1
                  THEN [q EXCEPT !.pc = "sleep"]
                  ELSE [q EXCEPT !.pc = "done", !.returns = Timeout]

(* One iteration of the for loop of _get_final_download_url, up to its sleep. *)
get_final_download_url(p, ans) ==
    LET q == [p EXCEPT !.calls = @ + 1, !.answer = ans.kind,
                       !.lastAnswer = IF IsComplete(ans) THEN ans ELSE @,
                       !.nComplete = @ + (IF IsComplete(ans) THEN 1 ELSE 0)]
    IN  IF ans.kind = "raise"
        THEN IF p.attempt < max_attempts - 1
             THEN [q EXCEPT !.pc = "sleep"]
             ELSE [q EXCEPT !.pc = "done", !.returns = Timeout]
        ELSE IF ans.api /\ ans.percent = "Completed" /\ ans.fileUrl # "" /\ ans.fileName # ""
             THEN [q EXCEPT !.pc = "done", !.returns = <<ans.fileUrl, ans.fileName>>]
             ELSE IF p.attempt < max_attempts - 1
                  THEN [q EXCEPT !.pc = "sleep"]
                  ELSE [q EXCEPT !.pc = "done", !.returns = Timeout]

(* _get_detail_async without the test of the attempt number before its
   sleeps. *)
get_detail_async_always_sleeps(p, ans) ==
    LET q == [p EXCEPT !.calls = @ + 1, !.answer = ans.kind,
                       !.lastAnswer = IF IsComplete(ans) THEN ans ELSE @,
                       !.nComplete = @ + (IF IsComplete(ans) THEN 1 ELSE 0)]
    IN  IF ans.kind = "json" /\ IsComplete(ans)
        THEN [q EXCEPT !.pc = "done", !.returns = <<ans.fileUrl, ans.fileName>>]
        ELSE [q EXCEPT !.pc = "sleep"]

(* One iteration of the for loop of _get_detail_async, up to its sleep. *)
get_detail_async(p, ans) ==
    LET q == [p EXCEPT !.calls = @ + 1, !.answer = ans.kind,
                       !.lastAnswer = IF IsComplete(ans) THEN ans ELSE @,
                       !.nComplete = @ + (IF IsComplete(ans) THEN 1 ELSE 0)]
    IN  IF ans.kind = "raise"
        THEN IF p.attempt < max_attempts - 1
             THEN [q EXCEPT !.pc = "sleep"]
             ELSE [q EXCEPT !.pc = "done", !.returns = Timeout]
        ELSE IF ans.api /\ ans.percent = "Completed" /\ ans.fileUrl # "" /\ ans.fileName # ""
             THEN [q EXCEPT !.pc = "done", !.returns = <<ans.fileUrl, ans.fileName>>]
             ELSE IF p.attempt < max_attempts - 1
                  THEN [q EXCEPT !.pc = "sleep"]
                  ELSE [q EXCEPT !.pc = "done", !.returns = Timeout]

(* A loop whose status call is outside the try block: the exception of a
   raising call leaves the resolver. *)
PollAttemptUncaught(p, ans) ==
    IF ans.kind = "raise"
    THEN [p EXCEPT !.calls = @ + 1, !.answer = "raise", !.pc = "done", !.raised = TRUE]
    ELSE IF p.fn = "messenger" THEN get_final_download_url(p, ans)
                               ELSE get_detail_async(p, ans)

(* One iteration of the resolver the run is of. *)
PollAttempt(p, ans) ==
    IF p.fn = "messenger" THEN get_final_download_url(p, ans)
                          ELSE get_detail_async(p, ans)

(* await asyncio.sleep(2), then the next iteration *)
PollWake(p) == [p EXCEPT !.pc = "call", !.attempt = @ + 1, !.sleeps = @ + 1, !.answer = ""]

---------------------------------------------------------------------------
(* Temp files *)

EmptyFs == [dirs |-> {}, files |-> << >>]

(* os.path.join("temp", "messenger", str(chat_id), session_id, filename) *)
get_temp_path(chat_id, session_id, filename) == <<chat_id, session_id, filename>>

DirOf(path) == <<path[1], path[2]>>

(* os.makedirs(os.path.dirname(filename), exist_ok=True) *)
MakeDirs(f, path) == [f EXCEPT !.dirs = @ \cup {DirOf(path)}]

(* open(filename, "wb"), n bytes written, closed *)
WriteFile(f, path, n) ==
    [f EXCEPT !.files = [q \in (DOMAIN @) \cup {path} |-> IF q = path THEN n ELSE @[q]]]

Exists(f, path) == path \in DOMAIN f.files

GetSize(f, path) == f.files[path]

(* cleanup_temp_files without its rmtree. *)
cleanup_temp_files_keep(f, chat_id, session_id) == f

(* shutil.rmtree of temp/messenger/<chat_id>/<session_id>, when it exists *)
cleanup_temp_files(f, chat_id, session_id) ==
    IF <<chat_id, session_id>> \in f.dirs
    THEN [dirs  |-> f.dirs \ {<<chat_id, session_id>>},
          files |-> [q \in { x \in DOMAIN f.files : DirOf(x) # <<chat_id, session_id>> }
                        |-> f.files[q]]]
    ELSE f

---------------------------------------------------------------------------
(* Streaming downloader of messenger.py *)

MaxBytes == max_size * MiB

Resp(raises, status, ctype, clen, body, breaks) ==
    [raises |-> raises, status |-> status, ctype |-> ctype, clen |-> clen,
     body |-> body, breaks |-> breaks]

(* What a GET can bring. clen is the content-length header (-1: absent),
   body the bytes the server sends, breaks the bytes received before the
   connection fails (-1: it does not fail). *)
DlResponses ==
    { Resp(TRUE, 0, "", -1, 0, -1),
      Resp(FALSE, 404, "text/html", -1, 100, -1),
      Resp(FALSE, 200, "text/html", -1, 100, -1),
      Resp(FALSE, 200, "video/mp4", -1, 20000, -1),
      Resp(FALSE, 200, "image/jpeg", 20000, 20000, -1),
      Resp(FALSE, 200, "application/octet-stream", -1, 0, -1),
      Resp(FALSE, 200, "video/mp4", MaxBytes + 1, MaxBytes + 1, -1),
      Resp(FALSE, 200, "video/mp4", -1, MaxBytes + 1, -1),
      Resp(FALSE, 200, "video/mp4", 20000, MaxBytes + 1, -1),
      Resp(FALSE, 200, "video/mp4", -1, 20000, 8192) }

(* The answers the flows draw a media download from, and a thumbnail. *)
FlowResponses ==
    { Resp(TRUE, 0, "", -1, 0, -1),
      Resp(FALSE, 404, "text/html", -1, 100, -1),
      Resp(FALSE, 200, "video/mp4", -1, 20000, -1),
      Resp(FALSE, 200, "application/octet-stream", -1, 0, -1),
      Resp(FALSE, 200, "video/mp4", -1, MaxBytes + 1, -1),
      Resp(FALSE, 200, "video/mp4", -1, 20000, 8192) }

ThumbResponses ==
    { Resp(TRUE, 0, "", -1, 0, -1),
      Resp(FALSE, 404, "text/html", -1, 100, -1),
      Resp(FALSE, 200, "image/jpeg", 20000, 20000, -1) }

NoUrl == ""

(* Every content type taken for a valid one. *)
ValidContentTypeAny(ctype) == TRUE

(* any(ct in content_type for ct in ["image/", "video/", "application/octet-stream"]) *)
ValidContentType(ctype) ==
    ctype \in {"video/mp4", "image/jpeg", "application/octet-stream"}

(* The bytes the for loop over iter_content(chunk_size) writes: every chunk
   of the body, full ones and the last partial one. *)
Streamed(body) == (body \div chunk_size) * chunk_size + (body % chunk_size)

(* The fallback URL requested whatever the first answer was. *)
FallbackAlways(r1, direct_url) == TRUE

(* if response.status_code != 200 and direct_url: reached only when the first
   GET has returned a response. *)
Fallback(r1, direct_url) == (~r1.raises) /\ r1.status # 200 /\ direct_url # NoUrl

(* No declared size taken for too large. *)
TooLargeNever(total_size) == FALSE

(* if total_size > max_size * 1024 * 1024 *)
TooLarge(total_size) == total_size > max_size * 1024 * 1024

(* download_file(url, filename, file_size, direct_url=direct_url); r1 answers
   the GET of url, r2 the GET of direct_url. reason names the exit taken: the
   except handler ("io": a request or the write loop raised), the status
   test, the content-type test, the size test; the caller gets ok alone. *)
download_file(f, filename, file_size, direct_url, r1, r2) ==
    LET fallback == Fallback(r1, direct_url)
        r    == IF fallback THEN r2 ELSE r1
        gets == IF fallback THEN 2 ELSE 1
        fail(reason) == [ok |-> FALSE, fs |-> f, gets |-> gets, resp |-> r, reason |-> reason]
        total_size == IF r.clen # -1 THEN r.clen ELSE file_size * 1024 * 1024
    IN  IF r1.raises \/ r.raises THEN fail("io")
        ELSE IF r.status # 200 THEN fail("status")
        ELSE IF ~ValidContentType(r.ctype) THEN fail("content_type")
        ELSE IF TooLarge(total_size) THEN fail("too_large")
        ELSE IF r.breaks # -1
             THEN [ok |-> FALSE, gets |-> gets, resp |-> r, reason |-> "io",
                   fs |-> WriteFile(MakeDirs(f, filename), filename, Streamed(r.breaks))]
             ELSE [ok |-> TRUE, gets |-> gets, resp |-> r, reason |-> "",
                   fs |-> WriteFile(MakeDirs(f, filename), filename, Streamed(r.body))]

DlIdle == [called |-> FALSE]

---------------------------------------------------------------------------
(* Messages and flows *)

ChatId == "chat"

Msg(kind, text) == [kind |-> kind, text |-> text]

NoMsg == Msg("", "")

ResIdle ==
    [pc |-> "idle", platform |-> "", session_id |-> << >>, keyboard |-> << >>,
     pending |-> NoMsg, level |-> 0, sent |-> << >>, stored |-> FALSE,
     raised |-> FALSE, items |-> << >>, failure |-> "",
     returned |-> FALSE, notice |-> "", escaped |-> FALSE]

(* What the metadata call of a resolver came to: "network" when the call or
   the reading of its body raised, "status" for a non-success status payload,
   "no_formats" when no format is left to offer, "" otherwise. *)
ResolverFailure(raises, bad_status, offered) ==
    IF raises THEN "network"
    ELSE IF bad_status THEN "status"
    ELSE IF offered = 0 THEN "no_formats"
    ELSE ""

(* The flow awaits the send of msg; level 0: inside the try block, 1: inside
   its except handler. *)
ResAwait(r, msg, level) == [r EXCEPT !.pc = "send", !.pending = msg, !.level = level]

---------------------------------------------------------------------------
(* YouTube resolver *)

Item(ext, quality, url, type) ==
    [mediaExtension |-> ext, mediaQuality |-> quality, mediaUrl |-> url, type |-> type]

YtItemLists ==
    { << >>,
      << Item("mp4", "720p", "v720", "video"), Item("m4a", "128K", "a128", "audio") >>,
      << Item("m4a", "48K", "a48", "audio"), Item("mp4", "360p", "", "video") >>,
      << Item("M4A", "256K", "a256", "audio"), Item("mp4", "720p", "v720", "video") >>,
      << Item("webm", "720p", "w720", "video"), Item("m4a", "false", "af", "audio") >>,
      << Item("mp4", "1080p", "v1080", "video"), Item("mp4", "720p", "v720", "video"),
         Item("m4a", "256K", "a256", "audio") >> }

YtResponse(raises, status, thumbnail, media_items) ==
    [raises |-> raises, status |-> status, thumbnail |-> thumbnail,
     media_items |-> media_items]

YtResponses ==
    { YtResponse(TRUE, "", "", << >>), YtResponse(FALSE, "ERROR", "", << >>) }
    \cup { YtResponse(FALSE, "OK", th, items) :
              th \in {"", "thumb"}, items \in YtItemLists }

(* The test of youtube_download with the deny-list of search.py, which keeps
   "128K". *)
YtKeeps_allow128(item) ==
    LET extension == Lower(item.mediaExtension)
        quality == item.mediaQuality
    IN  /\ ~(extension = "m4a" /\ (HasFalse(quality) \/ quality \in {"48K"}))
        /\ extension \in {"mp4", "m4a"}
        /\ item.mediaUrl # ""

(* The test of the loop of youtube_download that lets a media item into the
   format list. *)
YtKeeps(item) ==
    LET extension == Lower(item.mediaExtension)
        quality == item.mediaQuality
    IN  /\ ~(extension = "m4a" /\ (HasFalse(quality) \/ quality \in {"48K", "128K"}))
        /\ extension \in {"mp4", "m4a"}
        /\ item.mediaUrl # ""

YtFormat(item) ==
    [extension |-> item.mediaExtension, quality |-> item.mediaQuality,
     url |-> item.mediaUrl, type |-> item.type]

yt_formats(media_items) ==
    LET kept == SelectSeq(media_items, YtKeeps)
    IN  [i \in 1..Len(kept) |-> YtFormat(kept[i])]

Button(label, data) == [label |-> label, data |-> data]

yt_keyboard(formats, timestamp, session_id) ==
    [i \in 1..Len(formats) |->
        Button(<<Upper(formats[i].extension), formats[i].quality>>,
               Join(<< <<"yt">>, <<ToString(i)>>, timestamp, session_id >>))]

(* youtube_download from its entry to its first await after the HTTP call:
   the metadata call, the filter, the menu, the store and the thumbnail
   download. th answers the thumbnail GET. *)
youtube_download(r0, c, f, session_id, t, resp, th) ==
    LET formats == yt_formats(resp.media_items)
        r == [r0 EXCEPT !.platform = "yt", !.session_id = session_id,
                        !.items = resp.media_items,
                        !.failure = ResolverFailure(resp.raises, resp.status # "OK",
                                                    Len(formats))]
        timestamp == Timestamp(t)
        keyboard == yt_keyboard(formats, timestamp, session_id)
        cache_data == [yt_formats |-> formats, yt_timestamp |-> timestamp]
        thumb == download_file(f, get_temp_path(ChatId, session_id, "youtube_thumbnail.jpg"),
                               0, NoUrl, th, th)
    IN  IF resp.raises
        THEN [res |-> ResAwait(r, Msg("edit", "yt_error"), 1), cache |-> c, fs |-> f]
        ELSE IF resp.status # "OK"
        THEN [res |-> ResAwait(r, Msg("edit", "yt_meta_error"), 0), cache |-> c, fs |-> f]
        ELSE IF Len(formats) = 0
        THEN [res |-> ResAwait(r, Msg("edit", "yt_no_formats"), 0), cache |-> c, fs |-> f]
        ELSE [res |-> ResAwait([r EXCEPT !.keyboard = keyboard, !.stored = TRUE],
                               IF resp.thumbnail # "" /\ thumb.ok
                               THEN Msg("photo", "menu") ELSE Msg("edit", "menu"), 0),
              cache |-> store_in_cache(c, session_id, cache_data, t, t),
              fs |-> IF resp.thumbnail # "" THEN thumb.fs ELSE f]

---------------------------------------------------------------------------
(* TikTok resolver *)

Link(t, quality, a) == [t |-> t, s |-> quality, a |-> a]

TtLinkLists ==
    { << >>,
      << Link("MP4", "HD", "tv"), Link("MP3", "", "ta") >>,
      << Link("MP4", "HD", "") >>,
      << Link("JPG", "", "tj"), Link("MP4", "SD", "tv") >> }

TtResponse(raises, status, cover, links) ==
    [raises |-> raises, status |-> status, cover |-> cover, links |-> links]

TtResponses ==
    { TtResponse(TRUE, "", "", << >>), TtResponse(FALSE, "error", "", << >>) }
    \cup { TtResponse(FALSE, "ok", th, links) : th \in {"", "cover"}, links \in TtLinkLists }

(* 'MP4' in link_type, 'MP3' in link_type *)
HasMP4(link_type) == link_type \in {"MP4", "MP4 HD"}

HasMP3(link_type) == link_type \in {"MP3", "MP3 Audio"}

(* The loop of tiktok_download over enumerate(links, 1): one button for a
   link whose type holds MP4, else one for a link whose type holds MP3. *)
tt_keyboard(links, timestamp, session_id) ==
    LET K[i \in 0..Len(links)] ==
            IF i = 0 THEN << >>
            ELSE IF HasMP4(links[i].t)
                 THEN Append(K[i - 1],
                        Button(<<"MP4", links[i].s>>,
                               Join(<< <<"tt">>, <<"mp4">>, <<ToString(i)>>, timestamp, session_id >>)))
                 ELSE IF HasMP3(links[i].t)
                 THEN Append(K[i - 1],
                        Button(<<"MP3 Audio">>,
                               Join(<< <<"tt">>, <<"mp3">>, <<ToString(i)>>, timestamp, session_id >>)))
                 ELSE K[i - 1]
    IN  K[Len(links)]

(* tiktok_download from its entry to its first await after the HTTP call. *)
tiktok_download(r0, c, f, session_id, t, resp, th) ==
    LET timestamp == Timestamp(t)
        links == resp.links
        keyboard == tt_keyboard(links, timestamp, session_id)
        r == [r0 EXCEPT !.platform = "tt", !.session_id = session_id,
                        !.failure = ResolverFailure(resp.raises, resp.status # "ok",
                                                    Len(keyboard))]
        cache_data == [tt_links |-> links, tt_timestamp |-> timestamp]
        thumb == download_file(f, get_temp_path(ChatId, session_id, "tiktok_thumbnail.jpg"),
                               0, NoUrl, th, th)
    IN  IF resp.raises
        THEN [res |-> ResAwait(r, Msg("edit", "tt_error"), 1), cache |-> c, fs |-> f]
        ELSE IF resp.status # "ok"
        THEN [res |-> ResAwait(r, Msg("edit", "tt_api_error"), 0), cache |-> c, fs |-> f]
        ELSE [res |-> ResAwait([r EXCEPT !.keyboard = keyboard, !.stored = TRUE],
                               IF resp.cover # "" /\ thumb.ok
                               THEN Msg("photo", "menu") ELSE Msg("edit", "menu"), 0),
              cache |-> store_in_cache(c, session_id, cache_data, t, t),
              fs |-> IF resp.cover # "" THEN thumb.fs ELSE f]

---------------------------------------------------------------------------
(* Instagram resolver *)

Marker == "media.php?media="

(* urllib.parse.unquote *)
Unquote(str) ==
    [i \in 1..Len(str) |->
        CASE str[i] = "https%3A" -> "https:"
          [] str[i] = "%2F" -> "/"
          [] OTHER -> str[i]]

HasMarker(str) == \E i \in 1..Len(str) : str[i] = Marker

(* str.split("media.php?media=")[1] *)
AfterMarker(str) ==
    LET first == CHOOSE i \in 1..Len(str) :
                    str[i] = Marker /\ \A j \in 1..(i - 1) : str[j] # Marker
        later == { j \in (first + 1)..Len(str) : str[j] = Marker }
        stop  == IF later = {} THEN Len(str) + 1
                 ELSE CHOOSE j \in later : \A k \in later : j <= k
    IN  SubSeq(str, first + 1, stop - 1)

Anchor(href) == [href |-> href]

InstaHtmls ==
    { [anchors |-> << >>, poster |-> << >>],
      [anchors |-> << Anchor(<<"https://insta-save.net/about">>) >>, poster |-> << >>],
      [anchors |-> << Anchor(<<"https://insta-save.net/about">>),
                      Anchor(<<"https://insta-save.net/", Marker, "https%3A", "cdn1">>) >>,
       poster |-> <<"https://insta-save.net/", Marker, "https%3A", "poster">>],
      [anchors |-> << Anchor(<<Marker>>) >>, poster |-> <<"https:", "poster">>] }

InstaResponse(raises, status, html) == [raises |-> raises, status |-> status, html |-> html]

InstaResponses ==
    { InstaResponse(TRUE, "", [anchors |-> << >>, poster |-> << >>]),
      InstaResponse(FALSE, "error", [anchors |-> << >>, poster |-> << >>]) }
    \cup { InstaResponse(FALSE, "ok", html) : html \in InstaHtmls }

(* parse_media_from_html: the anchors whose href holds the media marker, and
   the poster of the video element *)
parse_media_from_html(html) ==
    LET IsMedia(a) == HasMarker(a.href)
        media == SelectSeq(html.anchors, IsMedia)
    IN  [media_items |-> [i \in 1..Len(media) |->
                            [url |-> media[i].href,
                             direct_url |-> Unquote(AfterMarker(media[i].href))]],
         thumbnail |-> html.poster]

insta_keyboard(timestamp, session_id) ==
    << Button(<<"MP4">>, Join(<< <<"insta">>, <<"mp4">>, timestamp, session_id >>)),
       Button(<<"MP3">>, Join(<< <<"insta">>, <<"mp3">>, timestamp, session_id >>)) >>

(* instagram_download from its entry to its first await after the HTTP call.
   th answers the GET of the thumbnail, th2 the GET of its direct URL. *)
instagram_download(r0, c, f, session_id, t, resp, th, th2) ==
    LET parsed == parse_media_from_html(resp.html)
        r == [r0 EXCEPT !.platform = "insta", !.session_id = session_id,
                        !.failure = ResolverFailure(resp.raises, resp.status = "error",
                                                    Len(parsed.media_items))]
        selected == parsed.media_items[1]
        thumbnail == parsed.thumbnail
        timestamp == Timestamp(t)
        cache_data == [insta_url |-> selected.url, insta_direct_url |-> selected.direct_url,
                       insta_timestamp |-> timestamp]
        direct_thumb_url == IF HasMarker(thumbnail) THEN Unquote(AfterMarker(thumbnail))
                            ELSE thumbnail
        thumb == download_file(f, get_temp_path(ChatId, session_id, "insta_thumbnail.jpg"),
                               0, IF direct_thumb_url = << >> THEN NoUrl ELSE "direct", th, th2)
    IN  IF resp.raises
        THEN [res |-> ResAwait(r, Msg("edit", "insta_error"), 1), cache |-> c, fs |-> f]
        ELSE IF resp.status = "error"
        THEN [res |-> ResAwait(r, Msg("edit", "insta_api_error"), 0), cache |-> c, fs |-> f]
        ELSE IF Len(parsed.media_items) = 0
        THEN [res |-> ResAwait(r, Msg("edit", "insta_no_media"), 0), cache |-> c, fs |-> f]
        ELSE [res |-> ResAwait([r EXCEPT !.keyboard = insta_keyboard(timestamp, session_id),
                                         !.stored = TRUE],
                               IF thumbnail # << >> /\ thumb.ok
                               THEN Msg("photo", "menu") ELSE Msg("edit", "menu"), 0),
              cache |-> store_in_cache(c, session_id, cache_data, t, t),
              fs |-> IF thumbnail # << >> THEN thumb.fs ELSE f]

(* What a send to the chat does to a resolver flow. A send that succeeds ends
   the flow; one that raises inside the try block enters the except handler,
   which sends the platform's error text; one that raises there leaves the
   function. The finally block runs cleanup_temp_files on every way out. *)
ResAfterSend(r, f, ok) ==
    LET logged == [r EXCEPT !.sent = Append(@, [msg |-> r.pending, ok |-> ok]),
                            !.pending = NoMsg]
        cleaned == cleanup_temp_files(f, ChatId, r.session_id)
    IN  IF ok THEN [res |-> [logged EXCEPT !.pc = "done"], fs |-> cleaned]
        ELSE IF r.level = 0
        THEN [res |-> ResAwait(logged, Msg("edit", "resolver_error"), 1), fs |-> f]
        ELSE [res |-> [logged EXCEPT !.pc = "done", !.raised = TRUE], fs |-> cleaned]

---------------------------------------------------------------------------
(* Callback router and the three button handlers *)

CbIdle ==
    [pc |-> "idle", data |-> << >>, platform |-> << >>, format_type |-> << >>,
     timestamp |-> << >>, session_id |-> << >>, cache_data |-> None,
     lookups |-> 0, handler |-> "", pending |-> NoMsg, level |-> 0, then |-> "",
     sent |-> << >>, gets |-> 0, polled |-> FALSE, raised |-> FALSE,
     selected |-> None, cleaned |-> FALSE, entry |-> None, at |-> 0,
     timeout |-> FALSE, dl_reason |-> "", conv |-> "",
     returned |-> FALSE, notice |-> "", escaped |-> FALSE]

(* The flow awaits the send of msg. level 0: the answer to the button press,
   sent before the try block; 1: inside the try block of a handler; 2: inside
   the except handler of a handler; 3: inside the except handler of
   handle_callback. then: where a successful send leads. *)
CbAwait(c, msg, level, then) ==
    [c EXCEPT !.pc = "send", !.pending = msg, !.level = level, !.then = then]

(* A test of the lookup's result that lets None through. *)
NotCachedNever(cache_data) == FALSE

(* not cache_data *)
NotCached(cache_data) == cache_data = None

(* handle_callback from its entry to its first await. *)
handle_callback(c0, c, t, data) ==
    LET parts == Split(data)
        k == [c0 EXCEPT !.data = data]
    IN  IF Len(parts) < 3
        THEN [cb |-> CbAwait(k, Msg("answer", "invalid_button"), 0, "return"), cache |-> c]
        ELSE IF Len(parts) >= 4
        THEN LET platform == parts[1]
                 format_type == parts[2]
                 timestamp == parts[3]
                 session_id == parts[4]
                 got == get_from_cache(c, session_id, t, t)
                 k2 == [k EXCEPT !.platform = platform, !.format_type = format_type,
                                 !.timestamp = timestamp, !.session_id = session_id,
                                 !.cache_data = got.result, !.lookups = 1,
                                 !.entry = IF session_id \in DOMAIN c THEN c[session_id]
                                           ELSE None,
                                 !.at = t]
             IN  IF NotCached(got.result)
                 THEN [cb |-> CbAwait(k2, Msg("answer", "session_expired"), 0, "return"),
                       cache |-> got.cache]
                 ELSE [cb |-> CbAwait(k2, Msg("answer", "loading"), 0, "dispatch"),
                       cache |-> got.cache]
        ELSE [cb |-> CbAwait(k, Msg("answer", "invalid_button"), 0, "return"), cache |-> c]

(* An exception inside the try block of a handler: its except handler sends
   the generic error text. *)
CbExcept(c) == CbAwait(c, Msg("message", "generic_error"), 2, "finally")

CbSay(c, text) == CbAwait(c, Msg("message", text), 1, "finally")

CbDeliver(c, kind, filename) == CbAwait(c, Msg(kind, filename), 1, "finally")

(* The handler returns without sending anything. *)
CbReturn(c) == [c EXCEPT !.pc = "finally"]

ConvOutcomes ==
    { [ok |-> TRUE, size |-> 9000], [ok |-> TRUE, size |-> 0],
      [ok |-> FALSE, size |-> -1], [ok |-> FALSE, size |-> 100] }

(* A convert_to_mp3 that reports success whatever pydub did. *)
convert_to_mp3_always_ok(f, input_path, mp3_path, cv) ==
    [ok |-> TRUE,
     fs |-> IF cv.size = -1 THEN MakeDirs(f, mp3_path)
            ELSE WriteFile(MakeDirs(f, mp3_path), mp3_path, cv.size)]

(* convert_to_mp3(input_path, mp3_path); cv is what pydub does: size is the
   size of the output it leaves, -1 when it leaves none. *)
convert_to_mp3(f, input_path, mp3_path, cv) ==
    [ok |-> cv.ok,
     fs |-> IF cv.size = -1 THEN MakeDirs(f, mp3_path)
            ELSE WriteFile(MakeDirs(f, mp3_path), mp3_path, cv.size)]

(* _handle_youtube_callback up to the call of _get_final_download_url. *)
handle_youtube_callback(c0) ==
    LET c == [c0 EXCEPT !.handler = "yt"]
        formats == DictGet(c.cache_data, "yt_formats", << >>)
        index == IntOf(c.format_type) - 1
        selected == PyIndex(formats, index)
    IN  IF ~IsInt(c.format_type) THEN CbExcept(c)
        ELSE IF index >= Len(formats) THEN CbSay(c, "invalid_format")
        ELSE IF ~selected.ok THEN CbExcept(c)
        ELSE [c EXCEPT !.pc = "poll", !.selected = selected.value, !.polled = TRUE]

(* _handle_youtube_callback after _get_final_download_url has returned. *)
youtube_after_poll(c, f, result, r1) ==
    LET extension == c.selected.extension
        filename == get_temp_path(ChatId, c.session_id, <<"youtube_media", extension>>)
        file_url == result[1]
        d == download_file(f, filename, 0, NoUrl, r1, r1)
        c1 == [c EXCEPT !.gets = @ + d.gets, !.dl_reason = d.reason]
    IN  IF Falsy(file_url) THEN [cb |-> CbSay(c, "link_error"), fs |-> f]
        ELSE IF d.ok
        THEN IF Exists(d.fs, filename) /\ GetSize(d.fs, filename) > 0
             THEN [cb |-> CbDeliver(c1, IF Lower(extension) = "mp4" THEN "video" ELSE "audio",
                                    filename),
                   fs |-> d.fs]
             ELSE [cb |-> CbSay(c1, "file_missing"), fs |-> d.fs]
        ELSE [cb |-> CbSay(c1, "video_error"), fs |-> d.fs]

(* _handle_tiktok_callback up to its first await. *)
handle_tiktok_callback(c0, f, r1, cv) ==
    LET c == [c0 EXCEPT !.handler = "tt"]
        links == DictGet(c.cache_data, "tt_links", << >>)
        parts == Split(c.data)
        link_index == IF IsInt(parts[3]) THEN IntOf(parts[3]) - 1 ELSE 0
        selected_link == PyIndex(links, link_index)
        download_url == selected_link.value.a
        mp4name == get_temp_path(ChatId, c.session_id, "tiktok_media.mp4")
        mp3name == get_temp_path(ChatId, c.session_id, "tiktok_audio.mp3")
        tmpname == get_temp_path(ChatId, c.session_id, "tiktok_temp.mp4")
        dv == download_file(f, mp4name, 0, NoUrl, r1, r1)
        da == download_file(f, mp3name, 0, NoUrl, r1, r1)
        dt == download_file(f, tmpname, 0, NoUrl, r1, r1)
        conv == convert_to_mp3(dt.fs, tmpname, mp3name, cv)
        c1 == [c EXCEPT !.gets = @ + 1]
        c2 == [c1 EXCEPT !.conv = IF cv.ok THEN "ok" ELSE "failed"]
    IN  IF StartsWith(c.format_type, "mp4")
        THEN IF link_index >= Len(links) THEN [cb |-> CbSay(c, "invalid_format"), fs |-> f]
             ELSE IF ~selected_link.ok THEN [cb |-> CbExcept(c), fs |-> f]
             ELSE IF download_url = "" THEN [cb |-> CbSay(c, "no_link"), fs |-> f]
             ELSE IF dv.ok
             THEN IF Exists(dv.fs, mp4name) /\ GetSize(dv.fs, mp4name) > 0
                  THEN [cb |-> CbDeliver(c1, "video", mp4name), fs |-> dv.fs]
                  ELSE [cb |-> CbSay(c1, "file_missing"), fs |-> dv.fs]
             ELSE [cb |-> CbSay(c1, "video_error"), fs |-> dv.fs]
        ELSE IF StartsWith(c.format_type, "mp3")
        THEN IF link_index >= Len(links) THEN [cb |-> CbSay(c, "invalid_format"), fs |-> f]
             ELSE IF ~selected_link.ok THEN [cb |-> CbExcept(c), fs |-> f]
             ELSE IF download_url = "" THEN [cb |-> CbSay(c, "no_link"), fs |-> f]
             ELSE IF HasMP3(selected_link.value.t)
             THEN IF da.ok
                  THEN IF Exists(da.fs, mp3name) /\ GetSize(da.fs, mp3name) > 0
                       THEN [cb |-> CbDeliver(c1, "audio", mp3name), fs |-> da.fs]
                       ELSE [cb |-> CbSay(c1, "mp3_missing"), fs |-> da.fs]
                  ELSE [cb |-> CbSay(c1, "audio_error"), fs |-> da.fs]
             ELSE IF dt.ok
                  THEN IF conv.ok
                       THEN IF Exists(conv.fs, mp3name) /\ GetSize(conv.fs, mp3name) > 0
                            THEN [cb |-> CbDeliver(c2, "audio", mp3name), fs |-> conv.fs]
                            ELSE [cb |-> CbSay(c2, "mp3_missing"), fs |-> conv.fs]
                       ELSE [cb |-> CbSay(c2, "convert_error"), fs |-> conv.fs]
                  ELSE [cb |-> CbSay(c1, "video_error"), fs |-> dt.fs]
        ELSE [cb |-> CbReturn(c), fs |-> f]

(* _handle_instagram_callback up to its first await. *)
handle_instagram_callback(c0, f, r1, r2, cv) ==
    LET c == [c0 EXCEPT !.handler = "insta"]
        direct_url == DictGet(c.cache_data, "insta_direct_url", None)
        direct == IF direct_url = None \/ direct_url = << >> THEN NoUrl ELSE "direct"
        mp4name == get_temp_path(ChatId, c.session_id, "insta_media.mp4")
        mp3name == get_temp_path(ChatId, c.session_id, "insta_audio.mp3")
        tmpname == get_temp_path(ChatId, c.session_id, "insta_temp.mp4")
        dv == download_file(f, mp4name, 0, direct, r1, r2)
        dt == download_file(f, tmpname, 0, direct, r1, r2)
        conv == convert_to_mp3(dt.fs, tmpname, mp3name, cv)
        c1 == [c EXCEPT !.gets = @ + dv.gets]
        c2 == [c1 EXCEPT !.conv = IF cv.ok THEN "ok" ELSE "failed"]
    IN  IF "insta_url" \notin DOMAIN c.cache_data /\ c.format_type \in {<<"mp4">>, <<"mp3">>}
        THEN [cb |-> CbSay(c1, "media_error"), fs |-> f]
        ELSE IF c.format_type = <<"mp4">>
        THEN IF dv.ok
             THEN IF Exists(dv.fs, mp4name) /\ GetSize(dv.fs, mp4name) > 0
                  THEN [cb |-> CbDeliver(c1, "video", mp4name), fs |-> dv.fs]
                  ELSE [cb |-> CbSay(c1, "file_missing"), fs |-> dv.fs]
             ELSE [cb |-> CbSay(c1, "media_error"), fs |-> dv.fs]
        ELSE IF c.format_type = <<"mp3">>
        THEN IF dt.ok
             THEN IF conv.ok
                  THEN IF Exists(conv.fs, mp3name) /\ GetSize(conv.fs, mp3name) > 0
                       THEN [cb |-> CbDeliver(c2, "audio", mp3name), fs |-> conv.fs]
                       ELSE [cb |-> CbSay(c2, "mp3_missing"), fs |-> conv.fs]
                  ELSE [cb |-> CbSay(c2, "convert_error"), fs |-> conv.fs]
             ELSE [cb |-> CbSay(c1, "media_error"), fs |-> dt.fs]
        ELSE [cb |-> CbReturn(c), fs |-> f]

(* A router that sends every platform to the YouTube handler. *)
DispatchYtOnly(c, f, r1, r2, cv) == [cb |-> handle_youtube_callback(c), fs |-> f]

(* The if / elif chain of handle_callback on the platform. *)
Dispatch(c, f, r1, r2, cv) ==
    IF c.platform = <<"yt">> THEN [cb |-> handle_youtube_callback(c), fs |-> f]
    ELSE IF c.platform = <<"tt">> THEN handle_tiktok_callback(c, f, r1, cv)
    ELSE IF c.platform = <<"insta">> THEN handle_instagram_callback(c, f, r1, r2, cv)
    ELSE [cb |-> CbReturn(c), fs |-> f]

(* The finally block of handle_callback, which runs with no await before it
   once the try block or an except handler is left. *)
CbFinally(c, f) ==
    IF c.pc = "finally"
    THEN [cb |-> [c EXCEPT !.pc = "done", !.cleaned = TRUE],
          fs |-> cleanup_temp_files(f, ChatId, c.session_id)]
    ELSE [cb |-> c, fs |-> f]

(* What a send does to a button-press flow. *)
CbAfterSend(c, f, ok) ==
    LET logged == [c EXCEPT !.sent = Append(@, [msg |-> c.pending, ok |-> ok]),
                            !.pending = NoMsg]
    IN  IF ok
        THEN IF c.then = "return" THEN [cb |-> [logged EXCEPT !.pc = "done"], fs |-> f]
             ELSE IF c.then = "dispatch" THEN [cb |-> [logged EXCEPT !.pc = "dispatch"], fs |-> f]
             ELSE CbFinally([logged EXCEPT !.pc = "finally"], f)
        ELSE IF c.level = 0
        THEN [cb |-> [logged EXCEPT !.pc = "done", !.raised = TRUE], fs |-> f]
        ELSE IF c.level = 1
        THEN [cb |-> CbAwait(logged, Msg("message", "generic_error"), 2, "finally"), fs |-> f]
        ELSE IF c.level = 2
        THEN [cb |-> CbAwait(logged, Msg("message", "generic_error"), 3, "finally"), fs |-> f]
        ELSE CbFinally([logged EXCEPT !.pc = "finally", !.raised = TRUE], f)

---------------------------------------------------------------------------
(* Song download of search.py *)

max_size_mb == 50

SongItem(ext, quality, url, type, size) ==
    [mediaExtension |-> ext, mediaQuality |-> quality, mediaUrl |-> url, type |-> type,
     mediaFileSize |-> size]

SongItemLists ==
    { << >>,
      << SongItem("mp4", "720p", "v720", "video", <<"30", " ", "MB">>),
         SongItem("m4a", "128K", "a128", "audio", <<"5.2", " ", "MB">>) >>,
      << SongItem("m4a", "48K", "a48", "audio", << >>),
         SongItem("m4a", "256K", "a256", "audio", <<"Unknown">>) >>,
      << SongItem("m4a", "256K", "", "audio", << >>) >>,
      << SongItem("mp4", "720p", "v720", "video", << >>) >>,
      << SongItem("m4a", "128K", "a128", "audio", <<"60", " ", "MB">>) >>,
      << SongItem("m4a", "128K", "a128", "audio", <<"1", " ", "GB">>) >> }

SongResponses ==
    { YtResponse(TRUE, "", "", << >>), YtResponse(FALSE, "ERROR", "", << >>) }
    \cup { YtResponse(FALSE, "OK", "", items) : items \in SongItemLists }

(* The first loop without its 128K branch: the first M4A item that is not
   deny-listed is kept, whatever its quality. *)
pick_best_audio_first_m4a(media_items) ==
    LET Bad(item) == HasFalse(item.mediaQuality) \/ item.mediaQuality = "48K"
        m4a == { i \in 1..Len(media_items) :
                   Upper(media_items[i].mediaExtension) = "M4A" /\ ~Bad(media_items[i]) }
        audio == { i \in 1..Len(media_items) : Lower(media_items[i].type) = "audio" }
    IN  IF m4a # {} THEN media_items[CHOOSE i \in m4a : \A j \in m4a : i <= j]
        ELSE IF audio = {} THEN None
        ELSE media_items[CHOOSE i \in audio : \A j \in audio : i <= j]

(* The two loops of _download_audio_only_async that choose best_audio: the
   first takes a 128K audio item and stops, or else keeps the first M4A item
   it meets; the second, when the first kept nothing, takes the first item
   of type audio. *)
pick_best_audio(media_items) ==
    LET IsAudio(item) == Lower(item.type) = "audio" \/ Upper(item.mediaExtension) = "M4A"
        Bad(item) == HasFalse(item.mediaQuality) \/ item.mediaQuality = "48K"
        B[i \in 0..Len(media_items)] ==
            IF i = 0 THEN [best |-> None, stop |-> FALSE]
            ELSE LET prev == B[i - 1]
                     item == media_items[i]
                 IN  IF prev.stop THEN prev
                     ELSE IF IsAudio(item) /\ ~Bad(item)
                     THEN IF item.mediaQuality = "128K"
                          THEN [best |-> item, stop |-> TRUE]
                          ELSE IF prev.best = None /\ Upper(item.mediaExtension) = "M4A"
                               THEN [best |-> item, stop |-> FALSE]
                               ELSE prev
                     ELSE prev
        first == B[Len(media_items)].best
        audio == { i \in 1..Len(media_items) : Lower(media_items[i].type) = "audio" }
    IN  IF first # None THEN first
        ELSE IF audio = {} THEN None
        ELSE media_items[CHOOSE i \in audio : \A j \in audio : i <= j]

(* The media items the API may list for the best-audio selection, and the
   lists of at most MaxItems of them. *)
PickItems ==
    { SongItem("m4a", "128K", "a128", "audio", << >>),
      SongItem("M4A", "128K", "b128", "", << >>),
      SongItem("m4a", "48K", "a48", "audio", << >>),
      SongItem("m4a", "False", "af", "Audio", << >>),
      SongItem("m4a", "256K", "a256", "audio", << >>),
      SongItem("mp3", "320K", "a320", "audio", << >>),
      SongItem("mp4", "720p", "v720", "video", << >>) }

PickLists == UNION { [1..n -> PickItems] : n \in 0..MaxItems }

PickIdle == [called |-> FALSE]

(* float(file_size_str.replace("MB", "").replace("GB", "000").strip()), in
   tenths of a megabyte; ok is FALSE where float raises ValueError. *)
ParseSize(file_size_str) ==
    LET replaced == [i \in 1..Len(file_size_str) |->
                        IF file_size_str[i] = "MB" THEN ""
                        ELSE IF file_size_str[i] = "GB" THEN "000"
                        ELSE file_size_str[i]]
        Blank(a) == a \in {"", " "}
        inner == { i \in 1..Len(replaced) : ~Blank(replaced[i]) }
        lo == CHOOSE i \in inner : \A j \in inner : i <= j
        hi == CHOOSE i \in inner : \A j \in inner : i >= j
        Tenths(a) == IF a = "5.2" THEN 52 ELSE IF a = "30" THEN 300 ELSE 600
    IN  IF inner = {} THEN [ok |-> FALSE, tenths |-> 0]
        ELSE IF \E i \in lo..hi : replaced[i] = " " THEN [ok |-> FALSE, tenths |-> 0]
        ELSE IF lo = hi /\ replaced[lo] \in {"5.2", "30", "60"}
        THEN [ok |-> TRUE, tenths |-> Tenths(replaced[lo])]
        ELSE [ok |-> FALSE, tenths |-> 0]

SongIdle ==
    [pc |-> "idle", msgs |-> << >>, pending |-> NoMsg, then |-> "", gets |-> 0,
     mkdtemps |-> 0, tempdir |-> FALSE, file |-> -1, best_audio |-> None,
     polled |-> FALSE, timeout |-> FALSE, raised |-> FALSE,
     media_items |-> << >>, resp |-> None,
     returned |-> FALSE, notice |-> "", escaped |-> FALSE, written |-> 0]

(* The message edit of a try / except: pass block: sent, its failure
   ignored. *)
SongNote(s, text) == [s EXCEPT !.msgs = Append(@, Msg("edit", text))]

(* An exception inside the try block of _download_audio_only_async: its
   except handler edits the loading message to an error text (by_text: the
   text depends on the text of the exception) and raises again, and
   download_song_background edits it once more and swallows the exception. *)
SongExcept(s, by_text) ==
    [SongNote(SongNote(s, IF by_text THEN "audio_error_by_text" ELSE "audio_error"),
              "download_error")
        EXCEPT !.pc = "done", !.raised = TRUE, !.pending = NoMsg]

(* The flow awaits a send that is not inside a try / except: pass block. *)
SongAwait(s, msg, then) == [s EXCEPT !.pc = "send", !.pending = msg, !.then = then]

(* _download_audio_only_async up to the call of _get_detail_async. *)
download_audio_only_async(s0, resp) ==
    LET s == [SongNote(s0, "loading") EXCEPT !.media_items = resp.media_items]
        best_audio == pick_best_audio(resp.media_items)
        file_size_str == DictGet(best_audio, "mediaFileSize", << >>)
        size == ParseSize(file_size_str)
    IN  IF resp.raises THEN SongExcept(s, TRUE)
        ELSE IF resp.status # "OK" THEN SongExcept(s, FALSE)
        ELSE IF Len(resp.media_items) = 0 THEN SongExcept(s, FALSE)
        ELSE IF best_audio = None THEN SongExcept(s, FALSE)
        ELSE IF best_audio.mediaUrl = "" THEN SongExcept([s EXCEPT !.best_audio = best_audio], FALSE)
        ELSE IF file_size_str # << >> /\ file_size_str # <<"Unknown">>
                /\ size.ok /\ size.tenths > max_size_mb * 10
        THEN SongAwait([s EXCEPT !.best_audio = best_audio], Msg("edit", "too_big"), "return")
        ELSE [s EXCEPT !.pc = "poll", !.best_audio = best_audio, !.polled = TRUE]

(* A write loop that never tests the size: all n bytes are written. *)
WrittenAll(n, limit) == n

(* The bytes the write loop of _download_audio_only_async has written when
   it stops, of n bytes received in chunks of chunk_size: all of them when
   they stay within the limit, and otherwise the chunks up to the first
   one after which downloaded_size is above the limit. *)
WrittenAtStop(n, limit) ==
    IF n <= limit THEN n
    ELSE LET k == limit \div chunk_size + 1
         IN  IF k * chunk_size < n THEN k * chunk_size ELSE n

(* _download_audio_only_async after _get_detail_async has returned; r answers
   the GET of the file. written is the size the file had when the write
   loop stopped. *)
song_after_poll(s0, result, r) ==
    LET s1 == [SongNote(s0, "almost_ready")
                  EXCEPT !.mkdtemps = @ + 1, !.tempdir = TRUE, !.gets = @ + 1]
        limit == max_size_mb * MiB
        received == IF r.breaks # -1 THEN r.breaks ELSE r.body
        s2 == [s1 EXCEPT !.written = WrittenAtStop(received, limit)]
    IN  IF Falsy(result[1]) \/ Falsy(result[2]) THEN SongExcept(s0, FALSE)
        ELSE IF r.raises \/ r.status >= 400 THEN SongExcept(s1, TRUE)
        ELSE IF r.clen > 0 /\ r.clen > limit
        THEN SongAwait(s1, Msg("edit", "too_big"), "return")
        ELSE IF s2.written > limit
        THEN SongAwait([s2 EXCEPT !.file = -1], Msg("edit", "too_big"), "return")
        ELSE IF r.breaks # -1
        THEN SongExcept([s2 EXCEPT !.file = Streamed(r.breaks)], TRUE)
        ELSE IF Streamed(r.body) > 0
        THEN SongAwait(SongNote([s2 EXCEPT !.file = Streamed(r.body)], "delete_loading"),
                       Msg("audio", "song"), "cleanup")
        ELSE SongAwait([s2 EXCEPT !.file = 0], Msg("edit", "empty_file"), "cleanup")

(* Answers to the GET of a song file around the 50 MiB limit: a body of
   exactly the limit, one byte above it, more than a chunk above it with a
   smaller declared length, and a connection that fails after the limit. *)
SongFileResponses ==
    { Resp(FALSE, 200, "audio/mp4", -1, max_size_mb * MiB, -1),
      Resp(FALSE, 200, "audio/mp4", -1, max_size_mb * MiB + 1, -1),
      Resp(FALSE, 200, "audio/mp4", 20000, max_size_mb * MiB + 20000, -1),
      Resp(FALSE, 200, "audio/mp4", -1, max_size_mb * MiB + 40000,
           max_size_mb * MiB + 20000) }

(* What a send does to the song flow. *)
SongAfterSend(s, ok) ==
    LET logged == [s EXCEPT !.msgs = Append(@, s.pending), !.pending = NoMsg]
    IN  IF ~ok THEN SongExcept(logged, TRUE)
        ELSE IF s.then = "cleanup"
        THEN [logged EXCEPT !.pc = "done", !.tempdir = FALSE, !.file = -1]
        ELSE [logged EXCEPT !.pc = "done"]

---------------------------------------------------------------------------
(* handle_url. A URL is a sequence of atoms: the scheme and "://" when it has
   one, the host when it has one, "/" and the rest (path and query) when it
   has one, and trailing characters. *)

UrlSchemes == {"", "http", "https", "ftp"}

UrlHosts ==
    {"", "www.youtube.com", "youtu.be", "vm.tiktok.com", "www.instagram.com",
     "example.org", "notyoutube.com"}

UrlRests == {"", "watch", "share?via=youtube.com"}

UrlTails == { << >>, <<"/">>, <<"+", "/">> }

MakeUrl(scheme, host, rest, tail) ==
    (IF scheme # "" THEN <<scheme, "://">> ELSE << >>)
    \o (IF host # "" THEN <<host>> ELSE << >>)
    \o (IF rest # "" THEN <<"/", rest>> ELSE << >>)
    \o tail

(* url.rstrip("+/ \t\n") *)
RECURSIVE clean_url(_)
clean_url(url) ==
    IF Len(url) > 0 /\ url[Len(url)] \in {"+", "/", " "}
    THEN clean_url(SubSeq(url, 1, Len(url) - 1))
    ELSE url

(* urlparse(url): the scheme is what precedes "://", the netloc what follows
   it up to the next "/". *)
urlparse(url) ==
    IF Len(url) >= 2 /\ url[2] = "://"
    THEN [scheme |-> url[1],
          netloc |-> IF Len(url) >= 3 /\ url[3] # "/" THEN url[3] ELSE ""]
    ELSE [scheme |-> "", netloc |-> ""]

(* all([result.scheme in ['http', 'https'], result.netloc]) *)
is_valid_url(url) ==
    LET result == urlparse(url)
    IN  result.scheme \in {"http", "https"} /\ result.netloc # ""

(* needle in url.lower(): some part of the URL has the needle in it. *)
Contains(url, needle) ==
    \E i \in 1..Len(url) :
        CASE needle = "youtube.com" ->
                 url[i] \in {"www.youtube.com", "notyoutube.com", "share?via=youtube.com"}
          [] needle = "youtu.be" -> url[i] = "youtu.be"
          [] needle = "tiktok.com" -> url[i] = "vm.tiktok.com"
          [] needle = "instagram.com" -> url[i] = "www.instagram.com"
          [] OTHER -> FALSE

(* A test of the platform that looks at the host alone. *)
PlatformOfHost(url) ==
    LET host == urlparse(url).netloc
    IN  IF host \in {"www.youtube.com", "youtu.be"} THEN "youtube"
        ELSE IF host = "vm.tiktok.com" THEN "tiktok"
        ELSE IF host = "www.instagram.com" THEN "instagram"
        ELSE "unsupported"

(* The if / elif chain of handle_url on the cleaned URL. *)
PlatformOf(url) ==
    IF Contains(url, "youtube.com") \/ Contains(url, "youtu.be") THEN "youtube"
    ELSE IF Contains(url, "tiktok.com") THEN "tiktok"
    ELSE IF Contains(url, "instagram.com") THEN "instagram"
    ELSE "unsupported"

(* handle_url: "invalid" and "unsupported" are the two error replies, the
   other outcomes the resolver that is called. *)
handle_url(url0) ==
    LET url == clean_url(url0)
    IN  IF ~is_valid_url(url) THEN "invalid" ELSE PlatformOf(url)

RouteIdle == [called |-> FALSE]

(* normalize_youtube_url. Here a URL is cut finer: scheme and "://", a host
   prefix such as "www.", the domain, then "/"-separated path segments and
   what follows the video id. *)

VideoIds == {"abc", "x-1_Y"}

VideoUrls ==
    { (IF scheme # "" THEN <<scheme, "://">> ELSE << >>)
      \o (IF www # "" THEN <<www>> ELSE << >>) \o <<domain>> \o path \o tail :
        scheme \in {"", "http", "https", "ftp"},
        www \in {"", "www.", "m."},
        domain \in {"youtube.com", "youtu.be", "example.org"},
        path \in { <<"/", "shorts", "/", id>> : id \in VideoIds }
                 \cup { <<"/", "watch?v=", id>> : id \in VideoIds }
                 \cup { <<"/", "shorts">>, <<"/", "shorts", "/">>, << >> },
        tail \in { << >>, <<"?feature=share">> } }

(* re.match of shorts_pattern at position i of the URL, the optional scheme
   and the optional "www." already passed: the video id, or "" when the
   pattern does not match. *)
ShortsIdAt(url, i) ==
    IF /\ Len(url) >= i + 4
       /\ url[i] = "youtube.com" /\ url[i + 1] = "/"
       /\ url[i + 2] = "shorts" /\ url[i + 3] = "/"
       /\ url[i + 4] \in VideoIds
    THEN url[i + 4]
    ELSE ""

(* A pattern in which "www." is required. *)
ShortsMatchWww(url) ==
    LET i == IF Len(url) >= 2 /\ url[1] \in {"http", "https"} /\ url[2] = "://"
             THEN 3 ELSE 1
    IN  IF Len(url) >= i /\ url[i] = "www." THEN ShortsIdAt(url, i + 1) ELSE ""

(* re.match(shorts_pattern, url): (?:https?:\/\/)? then (?:www\.)? then
   youtube\.com\/shorts\/ and the id. *)
ShortsMatch(url) ==
    LET i == IF Len(url) >= 2 /\ url[1] \in {"http", "https"} /\ url[2] = "://"
             THEN 3 ELSE 1
        j == IF Len(url) >= i /\ url[i] = "www." THEN i + 1 ELSE i
    IN  ShortsIdAt(url, j)

WatchUrl(video_id) == <<"https", "://", "www.", "youtube.com", "/", "watch?v=", video_id>>

normalize_youtube_url(url) ==
    LET video_id == ShortsMatch(url)
    IN  IF video_id # "" THEN WatchUrl(video_id) ELSE url

---------------------------------------------------------------------------
(* Search sessions of bot.py. user_sessions maps a user to the results of the
   user's last search; shown is the result messages sent so far, each with
   the list it displays and the tokens of its song buttons. *)

SearchResults == { << >>, <<"s1", "s2">>, <<"s2", "s1">>, <<"s3">> }

NoPress == [called |-> FALSE]

(* bc is the one run of _execute_broadcast the model follows: the admin who
   confirmed, len(users), the loop index and the two counters. *)
BcIdle == [pc |-> "idle", admin_id |-> 0, users |-> 0, i |-> 0,
           sent_count |-> 0, failed_count |-> 0, raised |-> FALSE]

(* The last call of search_music_fast: whether it asked the backend, and
   whether the backend had raised on the key's last lookup, less than
   cache_ttl seconds before. *)
NoSearch == [called |-> FALSE, key |-> << >>, backend |-> FALSE,
             prior_failed |-> FALSE, results |-> << >>]

(* The last call of is_rate_limited and what it returned. *)
NoRate == [called |-> FALSE, user_id |-> 0, limited |-> FALSE]

(* time is time.time() in seconds, as bot.py and search.py read it. *)
BotIdle == [bc |-> BcIdle, broadcast_sessions |-> << >>,
            user_sessions |-> << >>, shown |-> << >>, press |-> NoPress,
            time |-> 0, search_cache |-> << >>, last_search |-> NoSearch,
            rate_limits |-> << >>, rate_window |-> << >>,
            last_rate |-> NoRate]

(* f"download_song_{idx}" *)
SongToken(idx) == <<"download_song", "_", ToString(idx)>>

(* display_search_results_fast for page 1: the message lists the songs of
   the user's session and has one button for each, carrying its index. *)
display_search_results_fast(b, user_id) ==
    LET songs == b.user_sessions[user_id].search_results
    IN  [b EXCEPT !.shown = Append(@, [user_id |-> user_id, listed |-> songs,
                                       keyboard |-> [i \in 1..Len(songs) |->
                                                        SongToken(i - 1)]])]

(* handle_instant_search once the backend has answered with songs: an empty
   answer is reported and changes nothing; otherwise the answer replaces the
   user's session and is displayed. *)
handle_instant_search(b, user_id, query, songs) ==
    IF Len(songs) = 0 THEN b
    ELSE display_search_results_fast(
             [b EXCEPT !.user_sessions =
                 [u \in (DOMAIN @) \cup {user_id} |->
                     IF u = user_id
                     THEN [search_results |-> songs, search_query |-> query,
                           current_page |-> 1, total |-> Len(songs)]
                     ELSE @[u]]],
             user_id)

(* download_song_instant up to the creation of the download task: started
   tells whether the task is created, song is the song it is created for. *)
download_song_instant(b, user_id, song_idx) ==
    LET songs == IF user_id \in DOMAIN b.user_sessions
                 THEN b.user_sessions[user_id].search_results ELSE << >>
        chosen == PyIndex(songs, song_idx)
    IN  IF song_idx >= Len(songs)
        THEN [started |-> FALSE, notice |-> "invalid_choice", song |-> ""]
        ELSE IF ~chosen.ok
        THEN [started |-> FALSE, notice |-> "generic_error", song |-> ""]
        ELSE [started |-> TRUE, notice |-> "loading", song |-> chosen.value]

---------------------------------------------------------------------------
(* The search cache of search.py. An entry is the dict the code stores,
   results and timestamp, with one more field that the code does not have:
   raised tells whether the backend raised in the lookup that filled it. *)

search_cache_ttl == 300

SearchTimes == {0, 1, 299, 300, 301, 600}

Queries == {"q1", "Q1", "q2"}

(* query.lower().strip() *)
LowerStrip(query) == IF query = "Q1" THEN "q1" ELSE query

CacheKey(query, limit) == <<LowerStrip(query), "_", ToString(limit)>>

(* _search_sync: an exception of the backend is logged and the results
   collected so far, none when extract_info raises, are returned. *)
search_sync(outcome) ==
    IF outcome = "found" THEN <<"s1", "s2">> ELSE << >>

cleanup_search_cache(b) ==
    [b EXCEPT !.search_cache =
        [k \in {k \in DOMAIN @ : ~(b.time - @[k].timestamp > search_cache_ttl)}
            |-> @[k]]]

search_music_fast(b, query, limit, outcome) ==
    LET c == cleanup_search_cache(b)
        cache_key == CacheKey(query, limit)
        has == cache_key \in DOMAIN c.search_cache
        fresh == has /\ c.time - c.search_cache[cache_key].timestamp
                            < search_cache_ttl
        prior == fresh /\ c.search_cache[cache_key].raised
        results == search_sync(outcome)
    IN  IF fresh
        THEN [c EXCEPT !.last_search =
                 [called |-> TRUE, key |-> cache_key, backend |-> FALSE,
                  prior_failed |-> prior,
                  results |-> c.search_cache[cache_key].results]]
        ELSE [c EXCEPT !.search_cache =
                 [k \in (DOMAIN @) \cup {cache_key} |->
                     IF k = cache_key
                     THEN [results |-> results, timestamp |-> c.time,
                           raised |-> outcome = "raise"]
                     ELSE @[k]],
                       !.last_search =
                 [called |-> TRUE, key |-> cache_key, backend |-> TRUE,
                  prior_failed |-> prior, results |-> results]]

---------------------------------------------------------------------------
(* The rate limiter of bot.py. rate_limits maps a user to the tuple
   (last_request, count). rate_window is not in the code: for each user it
   holds the time of the first admitted request of the current 60-second
   window and the number of requests admitted since, counted from what
   is_rate_limited returned. *)

RateUsers == {1, 2}

RateTimes == {0, 59, 60, 119, 120}

rate_period == 60

rate_max == 50

Put(f, k, v) == [x \in (DOMAIN f) \cup {k} |-> IF x = k THEN v ELSE f[x]]

Admit(w, user_id, t) ==
    IF user_id \in DOMAIN w /\ t - w[user_id].start < rate_period
    THEN Put(w, user_id, [start |-> w[user_id].start,
                          admitted |-> w[user_id].admitted + 1])
    ELSE Put(w, user_id, [start |-> t, admitted |-> 1])

is_rate_limited_late(b, user_id) ==
    LET t == b.time
        limits == b.rate_limits
        admit(new) == [b EXCEPT !.rate_limits = new,
                                !.rate_window = Admit(@, user_id, t),
                                !.last_rate = [called |-> TRUE,
                                               user_id |-> user_id,
                                               limited |-> FALSE]]
    IN  IF user_id \in DOMAIN limits
        THEN IF t - limits[user_id].last_request < rate_period
             THEN IF limits[user_id].count > rate_max
                  THEN [b EXCEPT !.last_rate = [called |-> TRUE,
                                                user_id |-> user_id,
                                                limited |-> TRUE]]
                  ELSE admit(Put(limits, user_id,
                                 [last_request |-> limits[user_id].last_request,
                                  count |-> limits[user_id].count + 1]))
             ELSE admit(Put(limits, user_id, [last_request |-> t, count |-> 1]))
        ELSE admit(Put(limits, user_id, [last_request |-> t, count |-> 1]))

(* is_rate_limited, the whole of it under rate_limit_lock; the value
   returned is last_rate.limited. *)
is_rate_limited(b, user_id) ==
    LET t == b.time
        limits == b.rate_limits
        admit(new) == [b EXCEPT !.rate_limits = new,
                                !.rate_window = Admit(@, user_id, t),
                                !.last_rate = [called |-> TRUE,
                                               user_id |-> user_id,
                                               limited |-> FALSE]]
    IN  IF user_id \in DOMAIN limits
        THEN IF t - limits[user_id].last_request < rate_period
             THEN IF limits[user_id].count >= rate_max
                  THEN [b EXCEPT !.last_rate = [called |-> TRUE,
                                                user_id |-> user_id,
                                                limited |-> TRUE]]
                  ELSE admit(Put(limits, user_id,
                                 [last_request |-> limits[user_id].last_request,
                                  count |-> limits[user_id].count + 1]))
             ELSE admit(Put(limits, user_id, [last_request |-> t, count |-> 1]))
        ELSE admit(Put(limits, user_id, [last_request |-> t, count |-> 1]))

---------------------------------------------------------------------------
(* Broadcast sessions of broadcast.py. broadcast_sessions is keyed by
   f"bc_{admin_id}"; the model keys it by admin_id. A field of a session
   that holds Python's None holds the atom "None" here, so that every
   field of a session has one type. *)

Admins == {1, 2}

(* len(db.get_all_users()) at the time of the confirmation *)
UserCounts == {0, 1, 50}

StatusEvery == 50

start_broadcast_session(b, admin_id) ==
    IF admin_id \in DOMAIN b.broadcast_sessions THEN b
    ELSE [b EXCEPT !.broadcast_sessions =
             [a \in (DOMAIN @) \cup {admin_id} |->
                 IF a = admin_id
                 THEN [admin_id |-> admin_id, step |-> "waiting_message",
                       message |-> "None", media_type |-> "None",
                       media_file_id |-> "None"]
                 ELSE @[a]]]

(* handle_broadcast_message for a message of the given kind; kind "other"
   is a message with neither text, photo, video nor audio. *)
handle_broadcast_message(b, admin_id, kind, text) ==
    IF admin_id \notin DOMAIN b.broadcast_sessions THEN b
    ELSE IF b.broadcast_sessions[admin_id].step # "waiting_message" THEN b
    ELSE IF kind = "text"
    THEN [b EXCEPT !.broadcast_sessions[admin_id].message = text,
                   !.broadcast_sessions[admin_id].media_type = "text"]
    ELSE IF kind \in {"photo", "video", "audio"}
    THEN [b EXCEPT !.broadcast_sessions[admin_id].message = text,
                   !.broadcast_sessions[admin_id].media_type = kind,
                   !.broadcast_sessions[admin_id].media_file_id = "file_id"]
    ELSE b

RemoveSession(b, admin_id) ==
    [b EXCEPT !.broadcast_sessions =
        [a \in (DOMAIN @) \ {admin_id} |-> @[a]]]

(* handle_broadcast_callback up to its first await inside
   _execute_broadcast (confirm), or to its end (cancel, no session). *)
handle_broadcast_callback(b, admin_id, data, nusers) ==
    IF data = "bc_confirm"
    THEN IF admin_id \in DOMAIN b.broadcast_sessions
         THEN [b EXCEPT !.bc = [pc |-> "initial_edit", admin_id |-> admin_id,
                                users |-> nusers, i |-> 0, sent_count |-> 0,
                                failed_count |-> 0, raised |-> FALSE]]
         ELSE b
    ELSE IF data = "bc_cancel"
    THEN IF admin_id \in DOMAIN b.broadcast_sessions
         THEN RemoveSession(b, admin_id)
         ELSE b
    ELSE b

(* _execute_broadcast from one await to the next. ok tells whether the
   Telegram call the coroutine is waiting for succeeded; edit_ok is the
   outcome of the status edit made after every 50th user. An exception that
   reaches the outer handler is logged and ends the coroutine. *)
execute_broadcast(b, ok, edit_ok) ==
    LET r == b.bc
        failed == [b EXCEPT !.bc.pc = "done", !.bc.raised = TRUE]
    IN  CASE r.pc = "initial_edit" ->
               IF ~ok THEN failed
               ELSE [b EXCEPT !.bc.pc = IF r.users = 0 THEN "final" ELSE "send"]
          [] r.pc = "send" ->
               LET counted == [r EXCEPT !.sent_count = IF ok THEN @ + 1 ELSE @,
                                        !.failed_count = IF ok THEN @ ELSE @ + 1,
                                        !.i = @ + 1]
                   (* the status edit is inside try/except: pass *)
                   edited == IF counted.i % StatusEvery = 0
                             THEN (IF edit_ok THEN counted ELSE counted)
                             ELSE counted
               IN  [b EXCEPT !.bc = [edited EXCEPT !.pc =
                                        IF edited.i = r.users THEN "final"
                                        ELSE "send"]]
          [] r.pc = "final" ->
               (* sent_count/len(users) is evaluated before the edit *)
               IF r.users = 0 THEN failed
               ELSE IF ~ok THEN failed
               ELSE [RemoveSession(b, r.admin_id) EXCEPT !.bc.pc = "done"]
          [] OTHER -> b

---------------------------------------------------------------------------
(* The event loop. A handler is a coroutine run as a task on the one thread
   of the loop: it keeps the thread from one await to the next. An await of a
   Telegram call or of asyncio.sleep suspends the task and frees the thread;
   a call of requests (self.session.post / self.session.get, iter_content) is
   an ordinary synchronous call and keeps the thread until it returns. *)

Users == 1..MaxUsers

Step(name, how) == [name |-> name, how |-> how]

(* youtube_download: reply_text, the metadata POST, the thumbnail download,
   the menu. *)
ResolveSteps ==
    << Step("reply", "await"), Step("metadata", "call"), Step("thumbnail", "call"),
       Step("menu", "await") >>

(* handle_callback for a YouTube button: the answer, a status POST, the
   sleep, a second status POST, the download of the file, the delivery. *)
PressSteps ==
    << Step("answer", "await"), Step("status", "call"), Step("sleep", "await"),
       Step("status", "call"), Step("download", "call"), Step("deliver", "await") >>

Steps(kind) == IF kind = "resolve" THEN ResolveSteps ELSE PressSteps

NoTask == [kind |-> "", at |-> 0]

LoopIdle == [thread |-> 0, task |-> [u \in Users |-> NoTask]]

(* The task of user u is inside a synchronous requests call. *)
InCall(l, u) ==
    LET t == l.task[u]
    IN  t.kind # "" /\ t.at \in 1..Len(Steps(t.kind)) /\ Steps(t.kind)[t.at].how = "call"

(* The task of user u is suspended in an await. *)
InAwait(l, u) ==
    LET t == l.task[u]
    IN  t.kind # "" /\ t.at \in 1..Len(Steps(t.kind)) /\ Steps(t.kind)[t.at].how = "await"

(* The task of user u goes on to its next step: into a synchronous call,
   keeping the thread, or into an await or to its end, freeing it. *)
Proceed(l, u) ==
    LET t == l.task[u]
        next == t.at + 1
        steps == Steps(t.kind)
    IN  [thread |-> IF next <= Len(steps) /\ steps[next].how = "call" THEN u ELSE 0,
         task |-> [l.task EXCEPT ![u] = [t EXCEPT !.at = next]]]

---------------------------------------------------------------------------
Init ==
    /\ now = 0
    /\ cache = << >>
    /\ usedIds = {}
    /\ storeLog = << >>
    /\ lastGet = None
    /\ poll = PollIdle
    /\ fs = EmptyFs
    /\ dl = DlIdle
    /\ res = ResIdle
    /\ buttons = {}
    /\ cb = CbIdle
    /\ song = SongIdle
    /\ pick = PickIdle
    /\ reports = {}
    /\ loop = LoopIdle
    /\ route = RouteIdle
    /\ thr = ThrIdle
    /\ bot = BotIdle

(* No flow is in progress. *)
Quiescent == res.pc = "idle" /\ cb.pc = "idle" /\ song.pc = "idle"

(* The clock advances. The flows read it in their first step only, so time
   that passes inside a flow is time that passes after it. *)
Tick ==
    /\ Quiescent
    /\ now + ClockStep <= MaxTime
    /\ now' = now + ClockStep
    /\ UNCHANGED <<cache, usedIds, storeLog, lastGet, poll, fs, dl, res, buttons, cb, song, pick, reports, loop, route, thr, bot>>

(* A direct store under a fresh uuid4, the clock possibly advancing between
   the eviction scan and the computation of expires_at. *)
CacheStore ==
    \E sid \in Uuids \ usedIds, data \in SampleData, d \in {0, ClockStep} :
        /\ now + d <= MaxTime
        /\ cache' = store_in_cache(cache, sid, data, now, now + d)
        /\ now' = now + d
        /\ usedIds' = usedIds \cup {sid}
        /\ storeLog' = [k \in (DOMAIN storeLog) \cup {sid} |->
                           IF k = sid THEN [data |-> data, at |-> now + d]
                           ELSE storeLog[k]]
        /\ UNCHANGED <<lastGet, poll, fs, dl, res, buttons, cb, song, pick, reports, loop, route, thr, bot>>

CacheGet ==
    \E sid \in Uuids \cup {UnknownId}, d \in {0, ClockStep} :
        /\ now + d <= MaxTime
        /\ LET r == get_from_cache(cache, sid, now, now + d)
           IN  /\ cache' = r.cache
               /\ lastGet' = [session_id |-> sid, at |-> now + d, result |-> r.result,
                               stored |-> IF sid \in DOMAIN storeLog
                                          THEN storeLog[sid] ELSE None]
        /\ now' = now + d
        /\ UNCHANGED <<usedIds, storeLog, poll, fs, dl, res, buttons, cb, song, pick, reports, loop, route, thr, bot>>

(* The two-phase resolver called directly, as a unit test calls it. *)
PollBegin ==
    /\ poll.pc \in {"idle", "done"}
    /\ \E fn \in {"messenger", "search"}, media_url \in {"job1", "job2"} :
          poll' = PollStart(fn, media_url)
    /\ UNCHANGED <<now, cache, usedIds, storeLog, lastGet, fs, dl, res, buttons, cb, song, pick, reports, loop, route, thr, bot>>

PollCall ==
    /\ poll.pc = "call"
    /\ \E ans \in Answers : poll' = PollAttempt(poll, ans)
    /\ UNCHANGED <<now, cache, usedIds, storeLog, lastGet, fs, dl, res, buttons, cb, song, pick, reports, loop, route, thr, bot>>

PollSleep ==
    /\ poll.pc = "sleep"
    /\ poll' = PollWake(poll)
    /\ UNCHANGED <<now, cache, usedIds, storeLog, lastGet, fs, dl, res, buttons, cb, song, pick, reports, loop, route, thr, bot>>

NextPoll == PollBegin \/ PollCall \/ PollSleep

SpecPoll == Init /\ [][NextPoll]_vars

(* The resolver under fair scheduling: a status call returns or raises
   within its timeout of 10 seconds, and asyncio.sleep(2) returns. Each of
   the two steps changes one of the two counters. *)
SpecPollFair ==
    /\ SpecPoll
    /\ WF_<<poll.calls, poll.sleeps>>(PollCall)
    /\ WF_<<poll.calls, poll.sleeps>>(PollSleep)

(* download_file called directly, once, into an empty temp tree. *)
DownloadCall ==
    /\ ~dl.called
    /\ \E r1 \in DlResponses, r2 \in DlResponses, direct_url \in {NoUrl, "direct"},
       sid \in Uuids, file_size \in {0, 50, 200} :
        LET filename == get_temp_path(ChatId, sid, "media.mp4")
            r == download_file(EmptyFs, filename, file_size, direct_url, r1, r2)
        IN  /\ fs' = r.fs
            /\ dl' = [called |-> TRUE, filename |-> filename, direct_url |-> direct_url,
                      file_size |-> file_size,
                      first |-> r1, resp |-> r.resp, ok |-> r.ok, gets |-> r.gets]
            /\ UNCHANGED <<now, cache, usedIds, storeLog, lastGet, poll, res, buttons, cb, song, pick, reports, loop, route, thr, bot>>

(* The download part of _download_audio_only_async, for a song whose
   selection succeeded and whose download link was resolved; r answers the
   GET of the file. *)
SongDownloadCall ==
    /\ song.pc = "idle"
    /\ \E resp \in SongResponses, r \in DlResponses \cup SongFileResponses :
        LET s0 == download_audio_only_async(SongIdle, resp)
        IN  /\ s0.pc = "poll"
            /\ song' = [song_after_poll(s0, <<"f1", "n1">>, r) EXCEPT !.resp = r]
            /\ UNCHANGED <<now, cache, usedIds, storeLog, lastGet, poll, fs, dl, res, buttons,
                           cb, pick, reports, loop, route, thr, bot>>

NextDownload == DownloadCall \/ SongDownloadCall

SpecDownload == Init /\ [][NextDownload]_vars

(* The best-audio selection applied, once, to a media item list. *)
PickCall ==
    /\ ~pick.called
    /\ \E media_items \in PickLists :
        /\ pick' = [called |-> TRUE, media_items |-> media_items,
                    best_audio |-> pick_best_audio(media_items)]
        /\ UNCHANGED <<now, cache, usedIds, storeLog, lastGet, poll, fs, dl, res, buttons,
                       cb, song, reports, loop, route, thr, bot>>

NextPick == PickCall

SpecPick == Init /\ [][NextPick]_vars

(* A press of a YouTube button whose session is cached and whose selector
   is valid, at the point where _get_final_download_url has returned. *)
ReportFormats ==
    { YtFormat(Item("mp4", "720p", "v720", "video")),
      YtFormat(Item("M4A", "256K", "a256", "audio")) }

ReportStart(selected) ==
    [CbIdle EXCEPT !.pc = "poll", !.handler = "yt", !.platform = <<"yt">>,
                   !.session_id = <<"u", "1">>, !.selected = selected, !.polled = TRUE]

(* The download part of _handle_youtube_callback, applied to a link the
   resolver returned (or to its Timeout) and an answer of the GET; what is
   kept is how download_file ended and the message the handler sends next. *)
ReportCall ==
    \E selected \in ReportFormats, timed_out \in BOOLEAN, r1 \in DlResponses :
        LET result == IF timed_out THEN Timeout ELSE <<"f1", "n1">>
            o == youtube_after_poll(ReportStart(selected), EmptyFs, result, r1)
            sends == o.cb.pending
        IN  /\ reports' = reports \cup
                  { [reason |-> o.cb.dl_reason,
                     msg |-> IF sends.kind = "message" THEN sends ELSE Msg(sends.kind, "file")] }
            /\ UNCHANGED <<now, cache, usedIds, storeLog, lastGet, poll, fs, dl, res, buttons,
                           cb, song, pick, loop, route, thr, bot>>

NextReport == ReportCall

SpecReport == Init /\ [][NextReport]_vars

(* A thread calls store_in_cache (under a fresh uuid4), get_from_cache or
   cleanup_expired_cache. *)
ThreadCall ==
    \E u \in Threads :
        /\ thr.t[u].pc = "idle"
        /\ \/ \E sid \in Uuids \ usedIds, data \in SampleData :
                 /\ thr' = [thr EXCEPT !.t[u] =
                               [ThreadIdle EXCEPT !.pc = "wait", !.op = "store",
                                                  !.session_id = sid, !.data = data]]
                 /\ usedIds' = usedIds \cup {sid}
           \/ \E sid \in Uuids \cup {UnknownId} :
                 /\ thr' = [thr EXCEPT !.t[u] =
                               [ThreadIdle EXCEPT !.pc = "wait", !.op = "get",
                                                  !.session_id = sid]]
                 /\ UNCHANGED usedIds
           \/ /\ thr' = [thr EXCEPT !.t[u] =
                               [ThreadIdle EXCEPT !.pc = "wait", !.op = "cleanup"]]
              /\ UNCHANGED usedIds
        /\ UNCHANGED <<now, cache, storeLog, lastGet, poll, fs, dl, res, buttons,
                       cb, song, pick, reports, loop, route, bot>>

(* with self.cache_lock: for the eviction scan, and again for the function's
   own statement. *)
ThreadAcquire ==
    \E u \in Threads :
        /\ thr.t[u].pc \in {"wait", "wait_body"}
        /\ Acquire(thr.cache_lock, u)
        /\ thr' = [thr EXCEPT !.cache_lock = u,
                              !.t[u].pc = IF thr.t[u].pc = "wait" THEN "scan" ELSE "body"]
        /\ UNCHANGED <<now, cache, usedIds, storeLog, lastGet, poll, fs, dl, res,
                       buttons, cb, song, pick, reports, loop, route, bot>>

(* The comprehension over self.cache.items() starts. *)
ThreadScan ==
    \E u \in Threads :
        /\ thr.t[u].pc = "scan"
        /\ thr' = [thr EXCEPT !.t[u].pc = "scan_end",
                              !.t[u].size = Cardinality(DOMAIN cache)]
        /\ UNCHANGED <<now, cache, usedIds, storeLog, lastGet, poll, fs, dl, res,
                       buttons, cb, song, pick, reports, loop, route, bot>>

(* The comprehension ends: RuntimeError when the dictionary changed size
   during the iteration (the with statement then releases the lock), else the
   keys whose expires_at lies before datetime.now(). *)
ThreadScanEnd ==
    \E u \in Threads :
        /\ thr.t[u].pc = "scan_end"
        /\ thr' =
              IF Cardinality(DOMAIN cache) # thr.t[u].size
              THEN [thr EXCEPT !.cache_lock = 0, !.t[u].pc = "done",
                               !.t[u].raised = "RuntimeError"]
              ELSE [thr EXCEPT !.t[u].pc = "del",
                               !.t[u].expired =
                                   { k \in DOMAIN cache : now > cache[k].expires_at }]
        /\ UNCHANGED <<now, cache, usedIds, storeLog, lastGet, poll, fs, dl, res,
                       buttons, cb, song, pick, reports, loop, route, bot>>

(* for key in expired: del self.cache[key], one key a step, KeyError when the
   key is gone; after the last key the lock is released and the caller goes
   on to its own with block. *)
ThreadDelete ==
    \E u \in Threads :
        /\ thr.t[u].pc = "del"
        /\ IF thr.t[u].expired = {}
           THEN /\ thr' = [thr EXCEPT !.cache_lock = 0,
                                      !.t[u].pc = IF thr.t[u].op = "cleanup"
                                                  THEN "done" ELSE "wait_body"]
                /\ UNCHANGED cache
           ELSE \E key \in thr.t[u].expired :
                    IF key \in DOMAIN cache
                    THEN /\ cache' = [k \in (DOMAIN cache) \ {key} |-> cache[k]]
                         /\ thr' = [thr EXCEPT !.t[u].expired = @ \ {key}]
                    ELSE /\ thr' = [thr EXCEPT !.cache_lock = 0, !.t[u].pc = "done",
                                               !.t[u].raised = "KeyError"]
                         /\ UNCHANGED cache
        /\ UNCHANGED <<now, usedIds, storeLog, lastGet, poll, fs, dl, res,
                       buttons, cb, song, pick, reports, loop, route, bot>>

(* The statement under the second with block: the assignment of
   store_in_cache, or the lookup and expiry test of get_from_cache (stored
   is what had been stored under the id by then). *)
ThreadBody ==
    \E u \in Threads :
        LET t == thr.t[u]
        IN  /\ t.pc = "body"
            /\ IF t.op = "store"
               THEN /\ cache' = [k \in (DOMAIN cache) \cup {t.session_id} |->
                                    IF k = t.session_id
                                    THEN [data |-> t.data, expires_at |-> now + cache_ttl]
                                    ELSE cache[k]]
                    /\ storeLog' = [k \in (DOMAIN storeLog) \cup {t.session_id} |->
                                       IF k = t.session_id
                                       THEN [data |-> t.data, at |-> now]
                                       ELSE storeLog[k]]
                    /\ thr' = [thr EXCEPT !.cache_lock = 0, !.t[u].pc = "done",
                                          !.t[u].at = now]
               ELSE /\ thr' = [thr EXCEPT !.cache_lock = 0, !.t[u].pc = "done",
                                          !.t[u].at = now,
                                          !.t[u].stored =
                                              IF t.session_id \in DOMAIN storeLog
                                              THEN storeLog[t.session_id] ELSE None,
                                          !.t[u].result =
                                              IF /\ t.session_id \in DOMAIN cache
                                                 /\ now <= cache[t.session_id].expires_at
                                              THEN cache[t.session_id].data
                                              ELSE None]
                    /\ UNCHANGED <<cache, storeLog, bot>>
            /\ UNCHANGED <<now, usedIds, lastGet, poll, fs, dl, res, buttons, cb,
                           song, pick, reports, loop, route, bot>>

(* The call returns to its caller. *)
ThreadReturn ==
    \E u \in Threads :
        /\ thr.t[u].pc = "done"
        /\ thr' = [thr EXCEPT !.t[u] = ThreadIdle]
        /\ UNCHANGED <<now, cache, usedIds, storeLog, lastGet, poll, fs, dl, res,
                       buttons, cb, song, pick, reports, loop, route, bot>>

NextLock ==
    \/ Tick \/ ThreadCall \/ ThreadAcquire \/ ThreadScan \/ ThreadScanEnd
    \/ ThreadDelete \/ ThreadBody \/ ThreadReturn

SpecLock == Init /\ [][NextLock]_vars

(* A user sends a text that is not a link, and the backend answers. *)
SearchCall ==
    /\ ~bot.press.called
    /\ Len(bot.shown) < MaxSearches
    /\ \E user_id \in Users, query \in {"q1", "q2"}, songs \in SearchResults :
          bot' = handle_instant_search(bot, user_id, query, songs)
    /\ UNCHANGED <<now, cache, usedIds, storeLog, lastGet, poll, fs, dl, res, buttons,
                   cb, song, pick, reports, loop, route, thr>>

(* The user a result message was sent to presses one of its song buttons:
   handle_callback_query takes the index from the token and calls
   download_song_instant. *)
SongPress ==
    /\ ~bot.press.called
    /\ \E m \in 1..Len(bot.shown) :
          \E k \in 1..Len(bot.shown[m].keyboard) :
              LET data == bot.shown[m].keyboard[k]
                  song_idx == IntOf(<<data[3]>>)
                  o == download_song_instant(bot, bot.shown[m].user_id, song_idx)
              IN  bot' = [bot EXCEPT !.press =
                             [called |-> TRUE, message |-> m, button |-> k,
                              started |-> o.started, notice |-> o.notice,
                              song |-> o.song]]
    /\ UNCHANGED <<now, cache, usedIds, storeLog, lastGet, poll, fs, dl, res, buttons,
                   cb, song, pick, reports, loop, route, thr>>

NextSearch == SearchCall \/ SongPress

SpecSearch == Init /\ [][NextSearch]_vars

(* time.time() advances between two searches. *)
SearchTick ==
    /\ \E t \in SearchTimes :
          /\ t > bot.time
          /\ bot' = [bot EXCEPT !.time = t]
    /\ UNCHANGED <<now, cache, usedIds, storeLog, lastGet, poll, fs, dl, res, buttons,
                   cb, song, pick, reports, loop, route, thr>>

(* One call of search_music_fast; outcome is what the backend does if it
   is asked. *)
SearchFast ==
    /\ \E query \in Queries, limit \in {30},
           outcome \in {"found", "empty", "raise"} :
          bot' = search_music_fast(bot, query, limit, outcome)
    /\ UNCHANGED <<now, cache, usedIds, storeLog, lastGet, poll, fs, dl, res, buttons,
                   cb, song, pick, reports, loop, route, thr>>

NextSearchCache == SearchTick \/ SearchFast

SpecSearchCache == Init /\ [][NextSearchCache]_vars

(* time.time() advances between two requests. *)
RateTick ==
    /\ \E t \in RateTimes :
          /\ t > bot.time
          /\ bot' = [bot EXCEPT !.time = t]
    /\ UNCHANGED <<now, cache, usedIds, storeLog, lastGet, poll, fs, dl, res, buttons,
                   cb, song, pick, reports, loop, route, thr>>

(* A handler asks is_rate_limited for the user of its update. *)
RateCall ==
    /\ \E user_id \in RateUsers : bot' = is_rate_limited(bot, user_id)
    /\ UNCHANGED <<now, cache, usedIds, storeLog, lastGet, poll, fs, dl, res, buttons,
                   cb, song, pick, reports, loop, route, thr>>

NextRate == RateTick \/ RateCall

SpecRate == Init /\ [][NextRate]_vars

(* An admin opens the broadcast dialogue from the admin panel. *)
BroadcastStart ==
    /\ \E admin_id \in Admins :
          /\ admin_id \notin DOMAIN bot.broadcast_sessions
          /\ bot' = start_broadcast_session(bot, admin_id)
    /\ UNCHANGED <<now, cache, usedIds, storeLog, lastGet, poll, fs, dl, res, buttons,
                   cb, song, pick, reports, loop, route, thr>>

(* handle_text_message and the media handler for an admin with a session:
   the message is taken as broadcast input. *)
BroadcastMessage ==
    /\ \E admin_id \in DOMAIN bot.broadcast_sessions,
           kind \in {"text", "photo"}, text \in {"m1"} :
          /\ bot' = handle_broadcast_message(bot, admin_id, kind, text)
    /\ UNCHANGED <<now, cache, usedIds, storeLog, lastGet, poll, fs, dl, res, buttons,
                   cb, song, pick, reports, loop, route, thr>>

(* The admin presses the confirm or the cancel button of the confirmation
   message. The model follows one run of _execute_broadcast at a time. *)
BroadcastCallback ==
    /\ bot.bc.pc \in {"idle", "done"}
    /\ \E admin_id \in DOMAIN bot.broadcast_sessions,
           data \in {"bc_confirm", "bc_cancel"}, nusers \in UserCounts :
          /\ bot.broadcast_sessions[admin_id].message # "None"
          /\ bot' = handle_broadcast_callback(bot, admin_id, data, nusers)
    /\ UNCHANGED <<now, cache, usedIds, storeLog, lastGet, poll, fs, dl, res, buttons,
                   cb, song, pick, reports, loop, route, thr>>

(* The event loop resumes _execute_broadcast. *)
BroadcastStep ==
    /\ bot.bc.pc \in {"initial_edit", "send", "final"}
    /\ \E ok \in BOOLEAN, edit_ok \in BOOLEAN :
          bot' = execute_broadcast(bot, ok, edit_ok)
    /\ UNCHANGED <<now, cache, usedIds, storeLog, lastGet, poll, fs, dl, res, buttons,
                   cb, song, pick, reports, loop, route, thr>>

NextBroadcast ==
    BroadcastStart \/ BroadcastMessage \/ BroadcastCallback \/ BroadcastStep

SpecBroadcast == Init /\ [][NextBroadcast]_vars

(* Every await of _execute_broadcast returns or raises: the Telegram calls
   have timeouts and asyncio.sleep(0.05) ends. *)
SpecBroadcastFair == SpecBroadcast /\ WF_<<bot.bc>>(BroadcastStep)

(* handle_url applied, once, to a text the user sent. *)
UrlCall ==
    /\ ~route.called
    /\ \E scheme \in UrlSchemes, host \in UrlHosts, rest \in UrlRests, tail \in UrlTails :
          LET url == MakeUrl(scheme, host, rest, tail)
          IN  route' = [called |-> TRUE, url |-> url, outcome |-> handle_url(url)]
    /\ UNCHANGED <<now, cache, usedIds, storeLog, lastGet, poll, fs, dl, res, buttons,
                   cb, song, pick, reports, loop, thr, bot>>

(* youtube_download up to its post: the URL put in data={"url": ...}; twice
   is what a second normalisation of it would give. *)
YoutubePost ==
    /\ ~route.called
    /\ \E video_url \in VideoUrls :
          LET posted == normalize_youtube_url(video_url)
          IN  route' = [called |-> TRUE, url |-> video_url, outcome |-> "post",
                        posted |-> posted, twice |-> normalize_youtube_url(posted)]
    /\ UNCHANGED <<now, cache, usedIds, storeLog, lastGet, poll, fs, dl, res, buttons,
                   cb, song, pick, reports, loop, thr, bot>>

NextUrl == UrlCall \/ YoutubePost

SpecUrl == Init /\ [][NextUrl]_vars

(* An update of user u arrives: asyncio.create_task for a link, the callback
   query handler for a button press. *)
LoopArrive ==
    \E u \in Users, kind \in {"resolve", "press"} :
        /\ loop.task[u] = NoTask
        /\ loop' = [loop EXCEPT !.task[u] = [kind |-> kind, at |-> 0]]
        /\ UNCHANGED <<now, cache, usedIds, storeLog, lastGet, poll, fs, dl, res, buttons,
                       cb, song, pick, reports, route, thr, bot>>

(* The loop, its thread free, starts a task that is waiting to run. *)
LoopTake ==
    \E u \in Users :
        /\ loop.thread = 0
        /\ loop.task[u].kind # "" /\ loop.task[u].at = 0
        /\ loop' = Proceed(loop, u)
        /\ UNCHANGED <<now, cache, usedIds, storeLog, lastGet, poll, fs, dl, res, buttons,
                       cb, song, pick, reports, route, thr, bot>>

(* What a task awaits is done, and the loop, its thread free, resumes it. *)
LoopResume ==
    \E u \in Users :
        /\ loop.thread = 0
        /\ InAwait(loop, u)
        /\ loop' = Proceed(loop, u)
        /\ UNCHANGED <<now, cache, usedIds, storeLog, lastGet, poll, fs, dl, res, buttons,
                       cb, song, pick, reports, route, thr, bot>>

(* The synchronous call of the running task returns. *)
LoopReturn ==
    \E u \in Users :
        /\ loop.thread = u
        /\ InCall(loop, u)
        /\ loop' = Proceed(loop, u)
        /\ UNCHANGED <<now, cache, usedIds, storeLog, lastGet, poll, fs, dl, res, buttons,
                       cb, song, pick, reports, route, thr, bot>>

NextLoop == LoopArrive \/ LoopTake \/ LoopResume \/ LoopReturn

SpecLoop == Init /\ [][NextLoop]_vars

---------------------------------------------------------------------------
(* Resolver flows. A request is taken when no other flow is in progress. *)

CanResolve == Quiescent /\ Cardinality(usedIds) < MaxResolves

(* str(uuid.uuid4()): an id no session has had. Ids are opaque, so the
   flows take the unused ids in one fixed order. *)
FreshIds ==
    { <<"u", ToString(i)>> : i \in { j \in 1..MaxSessions : j = Cardinality(usedIds) + 1 } }

ResolveYoutube ==
    /\ CanResolve
    /\ \E sid \in FreshIds, resp \in YtResponses :
       \E th \in IF resp.thumbnail # "" THEN ThumbResponses ELSE {Resp(TRUE, 0, "", -1, 0, -1)} :
          LET o == youtube_download(ResIdle, cache, fs, sid, now, resp, th)
          IN  /\ res' = o.res
              /\ cache' = o.cache
              /\ fs' = o.fs
              /\ usedIds' = usedIds \cup {sid}
    /\ UNCHANGED <<now, storeLog, lastGet, poll, dl, buttons, cb, song, pick, reports, loop, route, thr, bot>>

ResolveTiktok ==
    /\ CanResolve
    /\ \E sid \in FreshIds, resp \in TtResponses :
       \E th \in IF resp.cover # "" THEN ThumbResponses ELSE {Resp(TRUE, 0, "", -1, 0, -1)} :
          LET o == tiktok_download(ResIdle, cache, fs, sid, now, resp, th)
          IN  /\ res' = o.res
              /\ cache' = o.cache
              /\ fs' = o.fs
              /\ usedIds' = usedIds \cup {sid}
    /\ UNCHANGED <<now, storeLog, lastGet, poll, dl, buttons, cb, song, pick, reports, loop, route, thr, bot>>

ResolveInstagram ==
    /\ CanResolve
    /\ \E sid \in FreshIds, resp \in InstaResponses :
       \E th \in IF resp.html.poster # << >> THEN ThumbResponses ELSE {Resp(TRUE, 0, "", -1, 0, -1)} :
       \E th2 \in IF resp.html.poster # << >> /\ ~th.raises /\ th.status # 200
                   THEN ThumbResponses ELSE {th} :
          LET o == instagram_download(ResIdle, cache, fs, sid, now, resp, th, th2)
          IN  /\ res' = o.res
              /\ cache' = o.cache
              /\ fs' = o.fs
              /\ usedIds' = usedIds \cup {sid}
    /\ UNCHANGED <<now, storeLog, lastGet, poll, dl, buttons, cb, song, pick, reports, loop, route, thr, bot>>

(* The pending send of the resolver flow completes or raises. *)
ResSend ==
    /\ res.pc = "send"
    /\ \E ok \in BOOLEAN :
          LET o == ResAfterSend(res, fs, ok)
          IN  /\ res' = o.res
              /\ fs' = o.fs
              /\ buttons' = IF ok /\ res.pending.text = "menu"
                            THEN buttons \cup
                                 { [data |-> res.keyboard[i].data, label |-> res.keyboard[i].label,
                                    index |-> i, platform |-> res.platform,
                                    session_id |-> res.session_id,
                                    format |-> IF res.platform = "yt"
                                               THEN yt_formats(res.items)[i] ELSE None] :
                                   i \in 1..Len(res.keyboard) }
                            ELSE buttons
    /\ UNCHANGED <<now, cache, usedIds, storeLog, lastGet, poll, dl, cb, song, pick, reports, loop, route, thr, bot>>

(* The tokens a button press can carry: the buttons of the menus sent, and
   tokens no menu holds. *)
ForgedTokens ==
    { Join(<< <<"yt">>, <<"1">> >>), Join(<< <<"yt">>, <<"1">>, Timestamp(0) >>),
      Join(<< <<"yt">>, <<"1">>, Timestamp(0), UnknownId >>) }
    \cup { Join(<< <<"yt">>, sel, Timestamp(0), sid >>) :
              sel \in { <<"0">>, <<"9">>, <<"x">> }, sid \in usedIds }
    \cup { Join(<< <<"tt">>, sel, idx, sid >>) :
              sel \in { <<"mp4">>, <<"mp3">> }, idx \in { <<"1">>, <<"x">> }, sid \in usedIds }
    \cup { Join(<< <<"tt">>, <<"x">>, <<"1">>, sid >>) : sid \in usedIds }
    \cup { Join(<< <<"insta">>, <<"x">>, Timestamp(0), sid >>) : sid \in usedIds }
    \cup { Join(<< <<"zz">>, <<"1">>, Timestamp(0), sid >>) : sid \in usedIds }

PressTokens == { b.data : b \in buttons } \cup ForgedTokens

(* A button press reaches handle_callback. *)
Press ==
    /\ Quiescent
    /\ \E data \in PressTokens :
          LET o == handle_callback(CbIdle, cache, now, data)
          IN  /\ cb' = o.cb
              /\ cache' = o.cache
    /\ UNCHANGED <<now, usedIds, storeLog, lastGet, poll, fs, dl, res, buttons, song, pick, reports, loop, route, thr, bot>>

CbSend ==
    /\ cb.pc = "send"
    /\ \E ok \in BOOLEAN :
          LET o == CbAfterSend(cb, fs, ok)
          IN  /\ cb' = o.cb
              /\ fs' = o.fs
    /\ UNCHANGED <<now, cache, usedIds, storeLog, lastGet, poll, dl, res, buttons, song, pick, reports, loop, route, thr, bot>>

CbDispatch ==
    /\ cb.pc = "dispatch"
    /\ \E r1 \in IF cb.platform \in { <<"tt">>, <<"insta">> }
                    THEN FlowResponses ELSE { CHOOSE r \in FlowResponses : r.raises },
          cv \in IF cb.format_type = <<"mp3">>
                    THEN ConvOutcomes ELSE { CHOOSE v \in ConvOutcomes : v.ok /\ v.size > 0 } :
        \E r2 \in IF cb.platform = <<"insta">> /\ ~r1.raises /\ r1.status # 200
                    THEN FlowResponses ELSE {r1} :
          LET d == Dispatch(cb, fs, r1, r2, cv)
              o == CbFinally(d.cb, d.fs)
          IN  /\ cb' = o.cb
              /\ fs' = o.fs
              /\ poll' = IF o.cb.pc = "poll"
                         THEN PollStart("messenger", o.cb.selected.url) ELSE poll
    /\ UNCHANGED <<now, cache, usedIds, storeLog, lastGet, dl, res, buttons, song, pick, reports, loop, route, thr, bot>>

CbAfterPoll ==
    /\ cb.pc = "poll" /\ poll.pc = "done"
    /\ \E r1 \in FlowResponses :
          LET o == youtube_after_poll(cb, fs, poll.returns, r1)
          IN  /\ cb' = [o.cb EXCEPT !.timeout = IsTimeout(poll.returns)]
              /\ fs' = o.fs
    /\ poll' = PollIdle
    /\ UNCHANGED <<now, cache, usedIds, storeLog, lastGet, dl, res, buttons, song, pick, reports, loop, route, thr, bot>>

(* A song download starts. It shares no state with the messenger flows (its
   own temp directory, no session cache), so it is taken before the first
   messenger session. *)
SongBegin ==
    /\ Quiescent
    /\ usedIds = {}
    /\ \E resp \in SongResponses :
          LET s == download_audio_only_async(SongIdle, resp)
          IN  /\ song' = s
              /\ poll' = IF s.pc = "poll" THEN PollStart("search", s.best_audio.mediaUrl)
                         ELSE poll
    /\ UNCHANGED <<now, cache, usedIds, storeLog, lastGet, fs, dl, res, buttons, cb, pick, reports, loop, route, thr, bot>>

SongAfterPoll ==
    /\ song.pc = "poll" /\ poll.pc = "done"
    /\ \E r \in FlowResponses :
          LET s == song_after_poll(song, poll.returns, r)
          IN  song' = [s EXCEPT !.timeout = IsTimeout(poll.returns),
                                !.resp = IF s.gets > 0 THEN r ELSE None]
    /\ poll' = PollIdle
    /\ UNCHANGED <<now, cache, usedIds, storeLog, lastGet, fs, dl, res, buttons, cb, pick, reports, loop, route, thr, bot>>

SongSend ==
    /\ song.pc = "send"
    /\ \E ok \in BOOLEAN : song' = SongAfterSend(song, ok)
    /\ UNCHANGED <<now, cache, usedIds, storeLog, lastGet, poll, fs, dl, res, buttons, cb, pick, reports, loop, route, thr, bot>>

(* The flow boundaries of bot.py. notice: the error notice the boundary, or
   the except handler of handle_url below it, sends ("sent"), possibly in
   vain ("failed"); escaped: an exception leaves the boundary. *)

(* A _handle_url_background that awaits handle_url with no try around it. *)
handle_url_background_bare(r, ok) ==
    IF r.raised
    THEN [r EXCEPT !.returned = TRUE, !.notice = IF ok THEN "sent" ELSE "failed",
                   !.escaped = ~ok]
    ELSE [r EXCEPT !.returned = TRUE]

(* _handle_url_background: the exception that leaves a resolver reaches the
   except handler of handle_url, whose reply_text is awaited unguarded (ok:
   it goes through); what leaves handle_url is caught and logged. *)
handle_url_background(r, ok) ==
    IF r.raised
    THEN [r EXCEPT !.returned = TRUE, !.notice = IF ok THEN "sent" ELSE "failed"]
    ELSE [r EXCEPT !.returned = TRUE]

(* handle_callback_query: what leaves handle_callback is caught and logged,
   and the alert is answered inside a try / except: pass. *)
handle_callback_query(c, ok) ==
    IF c.raised
    THEN [c EXCEPT !.returned = TRUE, !.notice = IF ok THEN "sent" ELSE "failed"]
    ELSE [c EXCEPT !.returned = TRUE]

(* _download_song_background: download_song_background has swallowed every
   exception of the download, so the try block ends without one. *)
download_song_background_task(s) == [s EXCEPT !.returned = TRUE]

(* The boundary of the flow that has ended runs to its return. *)
FlowReturn ==
    /\ \/ /\ res.pc = "done" /\ ~res.returned
          /\ \E ok \in BOOLEAN : res' = handle_url_background(res, ok)
          /\ UNCHANGED <<cb, song, bot>>
       \/ /\ cb.pc = "done" /\ ~cb.returned
          /\ \E ok \in BOOLEAN : cb' = handle_callback_query(cb, ok)
          /\ UNCHANGED <<res, song, bot>>
       \/ /\ song.pc = "done" /\ ~song.returned
          /\ song' = download_song_background_task(song)
          /\ UNCHANGED <<res, cb, bot>>
    /\ UNCHANGED <<now, cache, usedIds, storeLog, lastGet, poll, fs, dl, buttons, pick,
                   reports, loop, route, thr, bot>>

(* The flow that has returned is over, and its locals are gone. *)
FlowEnd ==
    /\ res.returned \/ cb.returned \/ song.returned
    /\ res' = ResIdle
    /\ cb' = CbIdle
    /\ song' = SongIdle
    /\ UNCHANGED <<now, cache, usedIds, storeLog, lastGet, poll, fs, dl, buttons, pick, reports, loop, route, thr, bot>>

NextFlow ==
    \/ Tick \/ ResolveYoutube \/ ResolveTiktok \/ ResolveInstagram \/ ResSend
    \/ Press \/ CbSend \/ CbDispatch \/ PollCall \/ PollSleep \/ CbAfterPoll
    \/ SongBegin \/ SongAfterPoll \/ SongSend \/ FlowReturn \/ FlowEnd

SpecFlow == Init /\ [][NextFlow]_vars

NextCache == Tick \/ CacheStore \/ CacheGet

SpecCache == Init /\ [][NextCache]_vars

---------------------------------------------------------------------------
(* C4: a get_from_cache on a session id returns the data stored under it when
   the lookup happens no later than store time + 15 minutes, and None when it
   happens later or when the id was never stored, whatever other ids were
   stored or looked up in between. *)
C4_CacheRoundTrip ==
    lastGet # None =>
        IF lastGet.stored = None
        THEN lastGet.result = None
        ELSE IF lastGet.at <= lastGet.stored.at + cache_ttl
             THEN lastGet.result = lastGet.stored.data
             ELSE lastGet.result = None

C4_Witness ==
    /\ lastGet # None
    /\ lastGet.stored # None
    /\ lastGet.at = lastGet.stored.at + cache_ttl
    /\ lastGet.result = lastGet.stored.data
    /\ Cardinality(DOMAIN storeLog) = 2

(* C2: download_file enforces the size limit on the bytes received: whenever
   the body of the response it streams is larger than 100 MiB, whatever the
   content-length header says, it returns failure and no file remains at the
   destination path. *)
C2_SizeEnforced ==
    (dl.called /\ ~dl.resp.raises /\ dl.resp.status = 200
        /\ ValidContentType(dl.resp.ctype) /\ dl.resp.body > MaxBytes
        /\ dl.resp.breaks = -1) =>
            /\ ~dl.ok
            /\ ~Exists(fs, dl.filename)

(* C3: the two-phase resolver returns on the first status call that reports
   "Completed" with both fields, with that call's (fileUrl, fileName), having
   made exactly that many calls; when no call does, it makes exactly 10 calls
   and returns (None, None). *)
C3_PollCalls ==
    poll.pc # "idle" =>
        /\ poll.calls <= max_attempts
        /\ poll.pc = "call" => poll.calls = poll.attempt
        /\ poll.pc # "call" => poll.calls = poll.attempt + 1
        /\ poll.nComplete >= 1 =>
              /\ poll.pc = "done"
              /\ poll.nComplete = 1
              /\ IsComplete(poll.lastAnswer)
              /\ poll.returns = <<poll.lastAnswer.fileUrl, poll.lastAnswer.fileName>>
        /\ (poll.pc = "done" /\ poll.nComplete = 0) =>
              /\ poll.calls = max_attempts
              /\ poll.returns = Timeout

C3_Witness ==
    /\ poll.pc = "done"
    /\ poll.calls = 3
    /\ poll.returns = <<"f2", "n2">>

---------------------------------------------------------------------------
(* Properties of the flows *)

CbParts == Split(cb.data)

(* The messages a button-press flow has sent or is sending. *)
CbMsgs == [i \in 1..Len(cb.sent) |-> cb.sent[i].msg] \o
          (IF cb.pc = "send" THEN <<cb.pending>> ELSE << >>)

CbDelivered == \E i \in 1..Len(CbMsgs) : CbMsgs[i].kind \in {"video", "audio"}

(* No temp directory of the session, and no file in one. *)
NoTemp(f, session_id) ==
    /\ <<ChatId, session_id>> \notin f.dirs
    /\ \A q \in DOMAIN f.files : DirOf(q) # <<ChatId, session_id>>

(* C1: a press of a button a resolver emitted looks up the session id under
   which the resolver stored the entry, whatever the segment count of the
   token. *)
C1_LastSegmentSessionId ==
    \A b \in buttons :
        (cb.pc # "idle" /\ cb.data = b.data) =>
            /\ cb.lookups = 1
            /\ cb.session_id = b.session_id

(* C5: every format held in a cache entry has a non-empty source URL and a
   quality label that is not on the deny-list. *)
C5_CachedFormatsValid ==
    \A sid \in DOMAIN cache :
        LET data == cache[sid].data
            formats == DictGet(data, "yt_formats", << >>)
            links == DictGet(data, "tt_links", << >>)
        IN  /\ \A i \in 1..Len(formats) :
                  /\ formats[i].url # ""
                  /\ ~(Lower(formats[i].extension) = "m4a"
                        /\ (HasFalse(formats[i].quality)
                             \/ formats[i].quality \in {"48K", "128K"}))
            /\ \A i \in 1..Len(links) : links[i].a # ""
            /\ ("insta_url" \in DOMAIN data => data.insta_url # << >>)

C6_Scenario ==
    /\ res.platform = "yt"
    /\ res.stored
    /\ res.items = << Item("mp4", "720p", "v720", "video"),
                      Item("m4a", "128K", "a128", "audio") >>

C6_MenuSent ==
    /\ res.pc = "done"
    /\ \E i \in 1..Len(res.sent) : res.sent[i].ok /\ res.sent[i].msg.text = "menu"

(* C6 as stated: the response with mp4/720p and m4a/128K stores 2 formats and
   sends a menu of 2 buttons. *)
C6_TwoFormatsTwoButtons ==
    C6_Scenario =>
        /\ Len(cache[res.session_id].data.yt_formats) = 2
        /\ Len(res.keyboard) = 2
        /\ (C6_MenuSent =>
               Cardinality({ b \in buttons : b.session_id = res.session_id }) = 2)

(* C6, amended: the response with mp4/720p and m4a/128K stores 1 format, the
   mp4/720p one, and sends a menu of 1 button; m4a/128K is on the deny-list
   of youtube_download. *)
C6_OneFormatOneButton ==
    C6_Scenario =>
        /\ Len(cache[res.session_id].data.yt_formats) = 1
        /\ cache[res.session_id].data.yt_formats[1].extension = "mp4"
        /\ cache[res.session_id].data.yt_formats[1].quality = "720p"
        /\ Len(res.keyboard) = 1
        /\ (C6_MenuSent =>
               Cardinality({ b \in buttons : b.session_id = res.session_id }) = 1)

C6_Witness ==
    /\ C6_Scenario
    /\ C6_MenuSent
    /\ Cardinality({ b \in buttons : b.session_id = res.session_id }) = 1

(* The handler handle_callback calls for a platform. *)
HandlerOf(platform) ==
    IF platform = <<"yt">> THEN "yt"
    ELSE IF platform = <<"tt">> THEN "tt"
    ELSE IF platform = <<"insta">> THEN "insta"
    ELSE ""

(* C7: a four-segment token whose session is cached is dispatched to the
   handler of its platform with its selector and its session id; a token of
   fewer than four segments gets the invalid-button notice, with no cache
   lookup and no dispatch. *)
C7_Dispatch ==
    /\ (cb.pc # "idle" /\ Len(CbParts) < 4) =>
          /\ cb.lookups = 0
          /\ cb.handler = ""
          /\ ~cb.polled /\ cb.gets = 0
          /\ CbMsgs = << Msg("answer", "invalid_button") >>
    /\ (cb.pc # "idle" /\ Len(CbParts) = 4 /\ cb.lookups = 1 /\ ~NotCached(cb.cache_data)) =>
          /\ cb.session_id = CbParts[4]
          /\ cb.format_type = CbParts[2]
          /\ CbMsgs[1] = Msg("answer", "loading")
          /\ (cb.pc = "send" /\ cb.level = 0) => cb.handler = ""
          /\ (cb.pc = "done" /\ Len(cb.sent) = 1 /\ ~cb.sent[1].ok) => cb.handler = ""
          /\ (cb.pc \notin {"send", "dispatch"} \/ cb.level > 0) /\
             ~(cb.pc = "done" /\ Len(cb.sent) = 1 /\ ~cb.sent[1].ok) =>
                cb.handler = HandlerOf(CbParts[1])

C7_Witness ==
    /\ cb.pc = "done"
    /\ Len(CbParts) = 4
    /\ CbParts[1] = <<"insta">> /\ CbParts[2] = <<"mp3">>
    /\ cb.handler = "insta" /\ cb.format_type = <<"mp3">> /\ cb.session_id \in usedIds
    /\ CbDelivered

(* C9: when a resolver flow or a button-press flow has ended, the temp
   directory of its session and every file in it are gone. *)
C9_TempDirRemoved ==
    /\ res.pc = "done" => NoTemp(fs, res.session_id)
    /\ cb.pc = "done" => NoTemp(fs, cb.session_id)

C9_Witness ==
    /\ cb.pc = "done"
    /\ cb.cleaned
    /\ cb.gets >= 1
    /\ CbDelivered
    /\ NoTemp(fs, cb.session_id)

(* The session of the press was missing from the cache or expired. *)
CbMissingOrExpired ==
    /\ cb.lookups = 1
    /\ (cb.entry = None \/ cb.at > cb.entry.expires_at)

(* C10: a press of a well-formed token whose session is missing or expired
   is answered with the session-expired notice, the lookup having returned
   None, and there is no poll, no download and no delivery. *)
C10_ExpiredNotice ==
    CbMissingOrExpired =>
        /\ cb.cache_data = None
        /\ cb.handler = ""
        /\ ~cb.polled /\ poll.pc = "idle"
        /\ cb.gets = 0
        /\ CbMsgs = << Msg("answer", "session_expired") >>
        /\ cb.pc \in {"send", "done"}

C10_Witness ==
    /\ cb.pc = "done"
    /\ \E b \in buttons : b.data = cb.data
    /\ cb.lookups = 1
    /\ cb.entry # None
    /\ cb.at > cb.entry.expires_at
    /\ cb.sent = << [msg |-> Msg("answer", "session_expired"), ok |-> TRUE] >>

SongDelivered == \E i \in 1..Len(song.msgs) : song.msgs[i].kind \in {"audio", "video"}

(* C8: when the two-phase resolver has returned Timeout, the YouTube button
   press and the song download send an error message, make no download GET
   and send no audio or video file; the song download creates no temp
   directory. *)
C8_TimeoutNoDownload ==
    /\ cb.timeout =>
          /\ cb.gets = 0
          /\ ~CbDelivered
          /\ NoTemp(fs, cb.session_id)
          /\ Len(CbMsgs) >= 2
          /\ CbMsgs[2] = Msg("message", "link_error")
          /\ \A i \in 3..Len(CbMsgs) : CbMsgs[i] = Msg("message", "generic_error")
    /\ song.timeout =>
          /\ song.gets = 0
          /\ song.mkdtemps = 0
          /\ ~SongDelivered
          /\ song.pending.kind # "audio"
          /\ \E i \in 1..Len(song.msgs) : song.msgs[i] = Msg("edit", "audio_error")

C8_Witness ==
    /\ song.pc = "done"
    /\ song.timeout
    /\ song.polled
    /\ song.raised

---------------------------------------------------------------------------
(* The best-audio selection of the song download *)

DenyListed(item) == HasFalse(item.mediaQuality) \/ item.mediaQuality = "48K"

(* C11: the item chosen by the best-audio selection never has a deny-listed
   quality label ("48K", or a label containing "false"), whatever the media
   item list. *)
C11_ChoiceNotDenyListed ==
    (pick.called /\ pick.best_audio # None) => ~DenyListed(pick.best_audio)

Audio128(item) ==
    /\ Lower(item.type) = "audio" \/ Upper(item.mediaExtension) = "M4A"
    /\ item.mediaQuality = "128K"

(* C12: the choice is fixed by the ordered list: whenever the list holds an
   audio item of quality "128K", the selection returns the first such item
   of the list, which is a 128K audio item. *)
C12_Prefers128 ==
    pick.called =>
        LET at128 == { i \in 1..Len(pick.media_items) : Audio128(pick.media_items[i]) }
        IN  at128 # {} =>
                /\ pick.best_audio = pick.media_items[CHOOSE i \in at128 : \A j \in at128 : i <= j]
                /\ Audio128(pick.best_audio)

(* A list whose first item is an M4A of another quality and whose second and
   third are two different 128K audio items: the second item is chosen. *)
C12_Witness ==
    /\ pick.called
    /\ Len(pick.media_items) = 3
    /\ pick.media_items[1].mediaQuality = "256K"
    /\ Audio128(pick.media_items[2])
    /\ Audio128(pick.media_items[3])
    /\ pick.media_items[2] # pick.media_items[3]
    /\ pick.best_audio = pick.media_items[2]

AudioCandidate(item) ==
    Lower(item.type) = "audio" \/ Upper(item.mediaExtension) = "M4A"

(* C13: a song download whose media item list holds no audio candidate but
   at least one other format with a media URL does not fail at the
   selection: it picks a format and goes on to resolve and download it. *)
C13_FallbackFormat ==
    ( /\ song.pc \in {"poll", "send", "done"}
      /\ Len(song.media_items) > 0
      /\ \A i \in 1..Len(song.media_items) : ~AudioCandidate(song.media_items[i])
      /\ \E i \in 1..Len(song.media_items) : song.media_items[i].mediaUrl # "" )
    => (song.best_audio # None /\ song.polled)

(* C26: when the list holds no 128K audio candidate, the selection returns
   the first audio candidate of the list, in list order, that is not
   deny-listed. *)
C26_FirstGoodCandidate ==
    pick.called =>
        LET items == pick.media_items
            at128 == { i \in 1..Len(items) : Audio128(items[i]) }
            good == { i \in 1..Len(items) :
                        AudioCandidate(items[i]) /\ ~DenyListed(items[i]) }
        IN  (at128 = {} /\ good # {}) =>
                pick.best_audio = items[CHOOSE i \in good : \A j \in good : i <= j]

---------------------------------------------------------------------------
(* The streaming downloaders *)

(* C14: whenever download_file returns success, exactly one file exists at
   the destination path, it is non-empty, and its byte count equals the
   length of the response body. *)
C14_SuccessFile ==
    (dl.called /\ dl.ok) =>
        /\ DOMAIN fs.files = {dl.filename}
        /\ GetSize(fs, dl.filename) > 0
        /\ GetSize(fs, dl.filename) = dl.resp.body

(* C15: when the response declares a content-length above the maximum
   (100 MiB for download_file, 50 MiB for the song download), the download
   fails and nothing is written: download_file returns failure with no file
   at the destination path, the song download ends in the too-large notice
   with no file written and no audio sent. *)
C15_DeclaredTooLarge ==
    /\ (dl.called /\ dl.resp.clen > max_size * MiB) =>
            (~dl.ok /\ ~Exists(fs, dl.filename) /\ fs = EmptyFs)
    /\ (song.resp # None /\ song.resp.clen > max_size_mb * MiB) =>
            /\ song.file = -1
            /\ song.pending.kind # "audio"
            /\ \A i \in 1..Len(song.msgs) : song.msgs[i].kind # "audio"

(* Both downloaders have met an answer of status 200 and a valid content
   type that declares more than their maximum; download_file met it on its
   fallback request. *)
C15_Witness ==
    /\ dl.called /\ dl.gets = 2
    /\ dl.resp.status = 200 /\ ValidContentType(dl.resp.ctype)
    /\ dl.resp.clen > max_size * MiB
    /\ ~dl.ok
    /\ song.resp # None /\ ~song.resp.raises /\ song.resp.status = 200
    /\ song.resp.clen > max_size_mb * MiB
    /\ song.pending = Msg("edit", "too_big")

(* C16: download_file returns failure, without creating or writing the
   destination file, whenever the content type of the response holds none
   of image/, video/, application/octet-stream. *)
C16_InvalidContentType ==
    ( /\ dl.called /\ ~dl.resp.raises
      /\ dl.resp.ctype \notin {"image/jpeg", "video/mp4", "application/octet-stream"} ) =>
        (~dl.ok /\ ~Exists(fs, dl.filename) /\ fs = EmptyFs)

(* A 200 answer of content type text/html with a body. *)
C16_Witness ==
    /\ dl.called /\ ~dl.resp.raises
    /\ dl.resp.status = 200 /\ dl.resp.ctype = "text/html" /\ dl.resp.body > 0
    /\ ~dl.ok

(* C17: download_file issues at most two GET requests per call; the second,
   to the fallback URL, is issued only when the first response is not
   successful and a fallback URL was supplied, and then once; if the
   fallback fails as well, download_file returns failure and writes no
   file. *)
C17_AtMostTwoGets ==
    dl.called =>
        /\ dl.gets \in {1, 2}
        /\ dl.gets = 2 =>
              (~dl.first.raises /\ dl.first.status # 200 /\ dl.direct_url # NoUrl)
        /\ (dl.gets = 2 /\ (dl.resp.raises \/ dl.resp.status # 200)) =>
              (~dl.ok /\ fs = EmptyFs)

(* The first answer is a 404, a fallback URL was given, and the fallback
   answers 404 too. *)
C17_Witness ==
    /\ dl.called /\ dl.gets = 2 /\ dl.direct_url # NoUrl
    /\ dl.first.status = 404 /\ ~dl.resp.raises /\ dl.resp.status = 404
    /\ ~dl.ok

---------------------------------------------------------------------------
(* Raising status calls of the two-phase resolver *)

(* C18: a status call that raises on an attempt before the last is followed
   by the sleep and the next attempt, as a not-ready answer is; on the last
   attempt it ends the run with Timeout; no exception of a status call
   leaves _get_final_download_url or _get_detail_async. *)
C18_RaiseIsNotReady ==
    /\ ~poll.raised
    /\ poll.answer = "raise" =>
          /\ poll.attempt < max_attempts - 1 => (poll.pc = "sleep" /\ IsTimeout(poll.returns))
          /\ poll.attempt = max_attempts - 1 => (poll.pc = "done" /\ IsTimeout(poll.returns))

(* The tenth status call of a run has raised. *)
C18_Witness ==
    /\ poll.answer = "raise"
    /\ poll.calls = max_attempts
    /\ poll.sleeps = max_attempts - 1
    /\ poll.pc = "done"
    /\ IsTimeout(poll.returns)

---------------------------------------------------------------------------
(* The outcome of a button press *)

(* An error text was shown: an alert answer, or an error message in the chat. *)
CbErrorShown ==
    \E i \in 1..Len(cb.sent) :
        /\ cb.sent[i].ok
        /\ \/ cb.sent[i].msg.kind = "message"
           \/ cb.sent[i].msg \in { Msg("answer", "invalid_button"),
                                    Msg("answer", "session_expired") }

CbFileSent ==
    \E i \in 1..Len(cb.sent) : cb.sent[i].ok /\ cb.sent[i].msg.kind \in {"video", "audio"}

(* C19: a button press routed to handle_callback, whatever its token, has
   ended, when handle_callback is over and none of its sends has failed, in
   exactly one of: an audio/video file delivered to the chat, or an error
   text shown to the user. *)
C19_FileOrErrorText ==
    (cb.pc = "done" /\ \A i \in 1..Len(cb.sent) : cb.sent[i].ok) =>
        /\ CbFileSent \/ CbErrorShown
        /\ ~(CbFileSent /\ CbErrorShown)

---------------------------------------------------------------------------
(* The buttons of a YouTube format menu *)

(* The press in progress is of button b, and the session of b is in the cache
   and within its TTL at the time of the press. *)
PressedWithinTTL(b) ==
    /\ cb.pc # "idle"
    /\ cb.data = b.data
    /\ cb.entry # None
    /\ cb.at <= cb.entry.expires_at

(* C20: for every button of a YouTube format menu, a press at any time
   within the TTL finds, at the button's index of the cached format list,
   the format the button was rendered for, whose label the button shows,
   and the handler selects that format. *)
C20_ButtonSelectsItsFormat ==
    \A b \in buttons :
        (b.platform = "yt" /\ PressedWithinTTL(b)) =>
            /\ b.label = <<Upper(b.format.extension), b.format.quality>>
            /\ b.index <= Len(cb.cache_data.yt_formats)
            /\ cb.cache_data.yt_formats[b.index] = b.format
            /\ cb.handler = "yt" => (cb.polled /\ cb.selected = b.format)

(* The second button of a two-format menu is pressed one clock step after
   the menu was stored, and the handler has selected its format. *)
C20_Witness ==
    \E b \in buttons :
        /\ b.platform = "yt" /\ b.index = 2
        /\ PressedWithinTTL(b)
        /\ cb.at = cb.entry.expires_at
        /\ cb.handler = "yt"
        /\ cb.selected = b.format
        /\ cb.selected # cb.cache_data.yt_formats[1]

---------------------------------------------------------------------------
(* Failures of the platform resolvers *)

(* The messages a resolver flow has sent or is sending. *)
ResMsgs == [i \in 1..Len(res.sent) |-> res.sent[i].msg] \o
           (IF res.pc = "send" THEN <<res.pending>> ELSE << >>)

(* C21: when a platform resolver ends in failure (network or HTTP error,
   non-success status payload, or no format left after filtering), no
   session entry is stored, no format menu is sent, and what the flow sends
   is a failure message; for the YouTube, TikTok and Instagram resolvers. *)
C21_FailureStoresNothing ==
    (res.pc # "idle" /\ res.failure # "") =>
        /\ ~res.stored
        /\ res.session_id \notin DOMAIN cache
        /\ \A i \in 1..Len(ResMsgs) : ResMsgs[i].text # "menu"

---------------------------------------------------------------------------
(* What the user is told of a failed download *)

DownloaderFailures == {"too_large", "content_type", "io"}

(* C22: the three downloader failures (too large, invalid content type, I/O
   error) are reported to the user with three different messages: two
   downloads that failed for different reasons are never followed by the
   same message. *)
C22_DistinctMessages ==
    \A a \in reports, b \in reports :
        ( /\ a.reason \in DownloaderFailures
          /\ b.reason \in DownloaderFailures
          /\ a.reason # b.reason )
        => a.msg # b.msg

---------------------------------------------------------------------------
(* The temp directory of the song download *)

(* C23: when the song-download flow is over, the temp directory it created
   with mkdtemp has been removed, on every way out that follows the
   creation: delivery, declared size too large, overrun while streaming,
   empty file, HTTP error, I/O or send exception. *)
C23_SongTempDirRemoved ==
    (song.pc = "done" /\ song.mkdtemps > 0) => (~song.tempdir /\ song.file = -1)

---------------------------------------------------------------------------
(* The event loop *)

(* C24: no handler runs a blocking network call or file transfer on the
   thread of the event loop: while a resolver call, a status poll or a media
   download of one user is in progress the thread is free, so that the loop
   can take another user's request. *)
C24_LoopFreeDuringCalls ==
    \A u \in Users : InCall(loop, u) => loop.thread = 0

---------------------------------------------------------------------------
(* The routing of a URL *)

Resolvers == {"youtube", "tiktok", "instagram"}

(* The hosts of each platform. *)
HostsOf(platform) ==
    CASE platform = "youtube" -> {"www.youtube.com", "youtu.be"}
      [] platform = "tiktok" -> {"vm.tiktok.com"}
      [] platform = "instagram" -> {"www.instagram.com"}

(* C25: handle_url calls a platform resolver only for a well-formed http(s)
   URL whose non-empty host belongs to that platform; a malformed URL or a
   URL of any other host gets an error reply and no resolver call. *)
C25_ResolverOnlyForPlatformHost ==
    (route.called /\ route.outcome \in Resolvers) =>
        LET url == clean_url(route.url)
        IN  /\ Len(url) >= 3
            /\ url[1] \in {"http", "https"} /\ url[2] = "://"
            /\ url[3] \in HostsOf(route.outcome)

---------------------------------------------------------------------------
(* The cache under concurrent calls *)

(* C27: every read and every mutation of the cache map is made by the thread
   that holds cache_lock, and the lock is held for cache statements only;
   under any interleaving of store_in_cache, get_from_cache and
   cleanup_expired_cache no call fails, no unexpired entry is lost, and a
   lookup returns the whole data stored under its id or None. *)
C27_LockedCache ==
    /\ \A u \in Threads : (thr.t[u].pc \in LockedPcs) <=> (thr.cache_lock = u)
    /\ \A u \in Threads : thr.t[u].raised = ""
    /\ \A sid \in DOMAIN storeLog :
          now <= storeLog[sid].at + cache_ttl =>
              /\ sid \in DOMAIN cache
              /\ cache[sid] = [data |-> storeLog[sid].data,
                               expires_at |-> storeLog[sid].at + cache_ttl]
    /\ \A u \in Threads :
          (thr.t[u].pc = "done" /\ thr.t[u].op = "get") =>
              LET t == thr.t[u]
              IN  IF ~IsNone(t.stored) /\ t.at <= t.stored.at + cache_ttl
                  THEN t.result = t.stored.data
                  ELSE IsNone(t.result)

(* A lookup returned its data while another thread was between its eviction
   scan and its own statement, after a third entry had been evicted. *)
C27_Witness ==
    \E u, v \in Threads :
        /\ u # v
        /\ thr.t[u].pc = "done" /\ thr.t[u].op = "get" /\ ~IsNone(thr.t[u].result)
        /\ thr.t[v].pc \in {"wait_body", "del"}
        /\ Cardinality(DOMAIN storeLog) > Cardinality(DOMAIN cache)

---------------------------------------------------------------------------
(* The life of a cache entry *)

(* C28: a step changes no entry that stays in the cache (neither its data
   nor its expires_at, whatever lookups and button-press flows take place),
   and an entry leaves the cache only when its expires_at has passed. *)
C28_EntryFrozenUntilExpiry ==
    [][ \A sid \in DOMAIN cache :
            IF sid \in DOMAIN cache'
            THEN cache'[sid] = cache[sid]
            ELSE now > cache[sid].expires_at ]_vars

(* A button press at the last moment of the TTL whose download failed has
   ended, and the entry it read is in the cache as it was. *)
C28_Witness ==
    /\ cb.pc = "done"
    /\ cb.dl_reason # ""
    /\ cb.entry # None
    /\ cb.at = cb.entry.expires_at
    /\ cb.session_id \in DOMAIN cache
    /\ cache[cb.session_id] = cb.entry

(* C29: a store_in_cache or get_from_cache call that started at time now
   leaves no entry in the cache whose expires_at lay before now, whichever id
   the call was about. *)
C29_AccessEvictsAllExpired ==
    [][ (usedIds' # usedIds \/ lastGet' # lastGet) =>
            \A k \in DOMAIN cache' : cache'[k].expires_at >= now ]_vars

(* A lookup of an id that was never stored has returned, and the one entry
   that had been stored is gone. *)
C29_Witness ==
    /\ lastGet # None
    /\ lastGet.session_id = UnknownId
    /\ lastGet.at = now
    /\ Cardinality(DOMAIN storeLog) = 1
    /\ DOMAIN cache = {}

---------------------------------------------------------------------------
(* The flow boundaries *)

(* C30: whatever failed inside a flow (resolver call, polling, download,
   conversion, or the send of the error message itself), no exception leaves
   _handle_url_background, handle_callback_query or
   _download_song_background: each has returned normally. *)
C30_NothingEscapes ==
    /\ res.returned => ~res.escaped
    /\ cb.returned => ~cb.escaped
    /\ song.returned => ~song.escaped

(* A resolver flow has returned after its error message, the error message
   of its except handler and the error reply of handle_url all failed to be
   sent. *)
C30_Witness ==
    /\ res.returned
    /\ res.raised
    /\ res.notice = "failed"
    /\ \E i \in 1..Len(res.sent) : ~res.sent[i].ok

---------------------------------------------------------------------------
(* Termination of the two-phase resolver *)

(* C31: a run of the two-phase resolver sleeps only between two attempts
   (never after an attempt that brought the result, never after the tenth
   attempt), makes at most 10 status calls and at most 9 sleeps, and always
   ends, whatever the endpoint answers. *)
C31_PollTerminates ==
    /\ [](poll.pc # "idle" =>
            /\ poll.calls <= max_attempts
            /\ poll.sleeps <= max_attempts - 1
            /\ poll.sleeps = poll.attempt
            /\ poll.pc = "sleep" =>
                  (poll.attempt < max_attempts - 1 /\ poll.nComplete = 0)
            /\ poll.pc = "done" => poll.sleeps = poll.calls - 1)
    /\ ((poll.pc \in {"call", "sleep"}) ~> (poll.pc = "done"))

(* A run of _get_detail_async has ended after ten answers that were not
   ready, the last of them a JSON body, and nine sleeps. *)
C31_Witness ==
    /\ poll.pc = "done"
    /\ poll.fn = "search"
    /\ poll.answer = "json"
    /\ poll.calls = max_attempts
    /\ poll.sleeps = max_attempts - 1
    /\ IsTimeout(poll.returns)

---------------------------------------------------------------------------
(* Failed conversions *)

(* C32: when pydub fails inside convert_to_mp3 the handler goes on as after
   a False result: the message it sends after the loading answer is the
   conversion-failed text, it sends no audio or video, and when the flow has
   ended no file of the session, partial output included, is left. *)
C32_ConversionFailure ==
    cb.conv = "failed" =>
        /\ Len(CbMsgs) >= 2
        /\ CbMsgs[2] = Msg("message", "convert_error")
        /\ \A i \in 1..Len(CbMsgs) : CbMsgs[i].kind \notin {"audio", "video"}
        /\ cb.pc = "done" =>
              /\ cb.cleaned
              /\ \A q \in DOMAIN fs.files : DirOf(q) # <<ChatId, cb.session_id>>

(* An Instagram mp3 press has ended: the download went through, the
   conversion failed, and the conversion-failed message was sent. *)
C32_Witness ==
    /\ cb.conv = "failed"
    /\ cb.handler = "insta"
    /\ cb.pc = "done"
    /\ cb.gets >= 1
    /\ Len(cb.sent) = 2
    /\ cb.sent[2] = [msg |-> Msg("message", "convert_error"), ok |-> TRUE]
    /\ fs = EmptyFs

---------------------------------------------------------------------------
(* Normalisation of YouTube URLs *)

(* The URL has the form youtube.com/shorts/<id>, with or without an http(s)
   scheme and with or without "www.". *)
IsShortsUrl(url) ==
    \E k \in 1..Len(url) :
        /\ SubSeq(url, 1, k - 1) \in
               { << >>, <<"www.">>, <<"http", "://">>, <<"https", "://">>,
                 <<"http", "://", "www.">>, <<"https", "://", "www.">> }
        /\ Len(url) >= k + 4
        /\ SubSeq(url, k, k + 3) = <<"youtube.com", "/", "shorts", "/">>
        /\ url[k + 4] \in VideoIds

(* C33: for a shorts URL the URL posted to the endpoint is
   https://www.youtube.com/watch?v=<id> with the id of the shorts URL; any
   other URL is posted unchanged; normalising the posted URL again changes
   nothing. *)
C33_ShortsNormalised ==
    (route.called /\ route.outcome = "post") =>
        /\ IsShortsUrl(route.url) =>
              \E k \in 1..Len(route.url) :
                  /\ route.url[k] = "shorts"
                  /\ route.posted = <<"https", "://", "www.", "youtube.com", "/",
                                      "watch?v=", route.url[k + 2]>>
        /\ ~IsShortsUrl(route.url) => route.posted = route.url
        /\ route.twice = route.posted

(* A shorts URL without scheme, with "www." and with a query string has been
   rewritten. *)
C33_Witness ==
    /\ route.called /\ route.outcome = "post"
    /\ route.url = <<"www.", "youtube.com", "/", "shorts", "/", "x-1_Y", "?feature=share">>
    /\ route.posted = <<"https", "://", "www.", "youtube.com", "/", "watch?v=", "x-1_Y">>

---------------------------------------------------------------------------
(* Selectors *)

(* C34: the YouTube handler starts a download (resolves the selected format)
   only when the integer selector of the token is one of 1..len of the
   cached format list; for every other integer, 0 and negative numbers
   included, it sends the invalid-selection notice and resolves nothing. *)
C34_SelectorInRange ==
    (cb.handler = "yt" /\ IsInt(cb.format_type)) =>
        LET n == IntOf(cb.format_type)
            formats == DictGet(cb.cache_data, "yt_formats", << >>)
        IN  IF n \in 1..Len(formats)
            THEN cb.polled
            ELSE /\ ~cb.polled
                 /\ cb.gets = 0
                 /\ Len(CbMsgs) >= 2
                 /\ CbMsgs[2] = Msg("message", "invalid_format")

---------------------------------------------------------------------------
(* Song buttons of result messages *)

(* C35: a press of a song button of a result message gets the download of
   the song that the message lists at the button's position, whatever
   searches the user ran after the message was shown. *)
C35_ButtonSelectsListedSong ==
    bot.press.called =>
        /\ bot.press.started
        /\ bot.press.song = bot.shown[bot.press.message].listed[bot.press.button]

---------------------------------------------------------------------------
(* Broadcast sessions *)

(* C36: there is at most one broadcast session per admin, and a session the
   admin has confirmed is eventually removed from broadcast_sessions, for
   every user list and whatever sends or status edits fail. *)
C36_ConfirmedSessionRemoved ==
    /\ [](\A a \in DOMAIN bot.broadcast_sessions :
             bot.broadcast_sessions[a].admin_id = a)
    /\ \A a \in Admins :
          (bot.bc.pc = "initial_edit" /\ bot.bc.admin_id = a)
              ~> (a \notin DOMAIN bot.broadcast_sessions)

---------------------------------------------------------------------------
(* The search cache *)

(* C37: a call of search_music_fast for a key whose last backend lookup
   raised, less than 300 seconds earlier, asks the backend again instead
   of returning the cached list. *)
C37_FailedLookupNotCached ==
    (bot.last_search.called /\ bot.last_search.prior_failed)
        => bot.last_search.backend

---------------------------------------------------------------------------
(* The rate limiter *)

SameFor(f, g, v) ==
    /\ (v \in DOMAIN f) = (v \in DOMAIN g)
    /\ v \in DOMAIN f => f[v] = g[v]

(* C38: in every call of is_rate_limited the stored count stays at or below
   50, no window admits more than 50 requests, a rejected request changes
   nothing of the limiter, a request 60 seconds or more after the start of
   the user's window (or the user's first) is admitted and starts a window
   with count 1, and the entries of the other users stay as they are. *)
C38_FixedWindow ==
    [][(bot'.time = bot.time /\ bot'.last_rate.called
            /\ (bot'.rate_limits # bot.rate_limits
                   \/ bot'.last_rate # bot.last_rate))
        => LET u == bot'.last_rate.user_id
               old == bot.rate_limits
               new == bot'.rate_limits
           IN  /\ \A v \in DOMAIN new : new[v].count <= 50
               /\ \A v \in DOMAIN bot'.rate_window :
                     bot'.rate_window[v].admitted <= 50
               /\ bot'.last_rate.limited =>
                     (new = old /\ bot'.rate_window = bot.rate_window)
               /\ (u \notin DOMAIN old
                      \/ bot.time - old[u].last_request >= 60) =>
                     /\ ~bot'.last_rate.limited
                     /\ new[u] = [last_request |-> bot.time, count |-> 1]
               /\ \A v \in RateUsers \ {u} : SameFor(old, new, v)]_vars

(* A user whose window is full has been rejected while the other user has
   a window of its own, opened later. *)
C38_Witness ==
    /\ bot.last_rate.limited
    /\ DOMAIN bot.rate_limits = RateUsers
    /\ bot.rate_limits[bot.last_rate.user_id].count = 50
    /\ \E v \in RateUsers :
          bot.rate_limits[v].last_request
              > bot.rate_limits[bot.last_rate.user_id].last_request

---------------------------------------------------------------------------
(* The size limit of the song download *)

(* C39: the song download never has more than 50 MiB and one chunk of 8192
   bytes on disk; when the bytes received go above 50 MiB, with no
   content-length or a smaller one declared, the loop has stopped within
   one chunk of the limit, the file is deleted, and no audio is sent. *)
C39_OverrunStopsDownload ==
    /\ song.written <= 50 * 1024 * 1024 + 8192
    /\ ( /\ song.resp # None /\ song.gets > 0
         /\ ~song.resp.raises /\ song.resp.status < 400
         /\ song.resp.clen <= 50 * 1024 * 1024
         /\ (IF song.resp.breaks # -1 THEN song.resp.breaks ELSE song.resp.body)
               > 50 * 1024 * 1024 ) =>
            /\ song.written > 50 * 1024 * 1024
            /\ song.file = -1
            /\ song.pending.kind # "audio"
            /\ \A i \in 1..Len(song.msgs) : song.msgs[i].kind # "audio"

(* A response that declares 20000 bytes and sends more than a chunk above
   the limit: the loop stopped one chunk above the limit and the flow is
   about to send the too-large notice. *)
C39_Witness ==
    /\ song.resp # None
    /\ song.resp.clen = 20000
    /\ song.resp.body > 50 * 1024 * 1024 + 8192
    /\ song.written = 50 * 1024 * 1024 + 8192
    /\ song.file = -1
    /\ song.pending = Msg("edit", "too_big")

====
